---- MODULE Spec2Model ----
(***************************************************************************)
(* Model of the request execution pipeline of go-http-client:             *)
(* RequestBuilder.Do / DoWithResponse / execute, the response-middleware  *)
(* buffering protocol, the retry engine (executeWithRetry,                *)
(* waitWithBackoff, calculateBackoff) and the error classifier.           *)
(***************************************************************************)
EXTENDS Integers, Sequences, FiniteSets, TLC

(***************************************************************************)
(* 64-bit signed integers (time.Duration, int64).  A word is the set of   *)
(* the positions of the one bits of its two's complement form, bit 0      *)
(* least significant, so that the wrap-around of Go's arithmetic is kept  *)
(* exactly.                                                                *)
(***************************************************************************)
Width == 64

BitIdx == 0..(Width - 1)

Bit(x, i) == IF i \in x THEN 1 ELSE 0

\* the word of a small natural number n < 2^30
FromNat(n) == {i \in 0..29 : (n \div (2 ^ i)) % 2 = 1}

Zero == {}

One == {0}

\* x * 2^k modulo 2^64
Shl(x, k) == {i \in BitIdx : (i - k) \in x}

IsNeg(x) == (Width - 1) \in x

IsZero(x) == x = {}

IsPos(x) == ~IsNeg(x) /\ ~IsZero(x)

\* x + y modulo 2^64.  The carry into bit i is 1 when some lower position
\* generates a carry (both bits set) and every position between propagates
\* it (a bit set).
AddW(x, y) ==
    LET gen   == x \cap y
        prop  == x \cup y
        carry == {i \in BitIdx :
                    \E j \in gen : j < i /\ \A k \in (j + 1)..(i - 1) : k \in prop}
    IN  {i \in BitIdx : (Bit(x, i) + Bit(y, i) + Bit(carry, i)) % 2 = 1}

NotW(x) == BitIdx \ x

NegW(x) == AddW(NotW(x), One)

SubW(x, y) == AddW(x, NegW(y))

\* unsigned x < y
ULt(x, y) ==
    \E i \in y \ x : \A j \in BitIdx : j > i => ((j \in x) <=> (j \in y))

\* signed x < y
SLt(x, y) == IF IsNeg(x) # IsNeg(y) THEN IsNeg(x) ELSE ULt(x, y)

SLe(x, y) == x = y \/ SLt(x, y)

\* arithmetic shift right by one
AShr1(x) == {i \in BitIdx : IF i = Width - 1 THEN i \in x ELSE (i + 1) \in x}

\* Go's x / 2 on int64: the quotient truncated toward zero
Half(x) == IF IsNeg(x) THEN AShr1(AddW(x, One)) ELSE AShr1(x)

\* 200 * time.Millisecond and 10 * time.Second in nanoseconds:
\* 200000000 = 390625 * 2^9 and 10000000000 = 9765625 * 2^10
DefaultRetryWaitTime == Shl(FromNat(390625), 9)

DefaultRetryMaxWaitTime == Shl(FromNat(9765625), 10)

DefaultRetryAttempts == 3

MinInt64 == Shl(One, Width - 1)

MaxInt64 == NotW(MinInt64)

RECURSIVE MulRange(_, _, _, _)
\* the sum of x * 2^j over the set bits j of y in lo..hi, modulo 2^64
MulRange(x, y, lo, hi) ==
    LET mid == (lo + hi) \div 2
    IN  IF y \cap (lo..hi) = {} THEN Zero
        ELSE IF lo = hi THEN Shl(x, lo)
        ELSE IF y \cap (lo..mid) = {} THEN MulRange(x, y, mid + 1, hi)
        ELSE IF y \cap ((mid + 1)..hi) = {} THEN MulRange(x, y, lo, mid)
        ELSE AddW(MulRange(x, y, lo, mid), MulRange(x, y, mid + 1, hi))

\* x * y modulo 2^64
MulW(x, y) == MulRange(x, y, 0, Width - 1)

(***************************************************************************)
(* Backoff calculator (retry.go).                                         *)
(***************************************************************************)

\* time.Duration(math.Pow(2, float64(attempt))): exact while 2^attempt fits
\* int64; an out-of-range float-to-integer conversion is implementation
\* dependent in Go (0x8000000000000000 on amd64, saturation on arm64).
Pow2Duration(attempt) ==
    IF attempt <= Width - 2 THEN {Shl(One, attempt)} ELSE {MinInt64, MaxInt64}

\* rand.Int63n(n), n > 0: a value of [0, n); the ends and the middle stand for
\* the range.
Int63n(n) == {Zero, Half(n), SubW(n, One)}

\* the values calculateBackoff(attempt, waitTime, maxWaitTime) can return
calculateBackoff(attempt, waitTime, maxWaitTime) ==
    UNION { LET product == MulW(waitTime, f)
                backoff == IF SLt(maxWaitTime, product) THEN maxWaitTime ELSE product
                jitter  == Half(backoff)
            IN  IF IsPos(jitter)
                THEN {AddW(Half(backoff), j) : j \in Int63n(jitter)}
                ELSE {AddW(Half(backoff), jitter)}
          : f \in Pow2Duration(attempt) }

(***************************************************************************)
(* State of one client and of one request execution on it.                *)
(***************************************************************************)
VARIABLES
    retryConfig,         \* HTTPClient.retryConfig: NoRetry or the RetryConfig
    middleware,          \* HTTPClient.middleware, in registration order
    responseMiddleware,  \* HTTPClient.responseMiddleware, in registration order
    api,                 \* the entry point called: "Do" or "DoWithResponse"
    hasResult,           \* Do's result argument is not nil
    bErr,                \* RequestBuilder.err
    cancelled,           \* b.ctx is done
    pc,                  \* position of the execution
    header,              \* req.Header
    mwIdx,               \* index of the middleware step to run next
    reqLog,              \* request-middleware steps invoked and whether each faulted
    attempt,             \* executeWithRetry's loop variable
    sendLog,             \* per transport call: its state and the status returned
    resp,                \* the current *http.Response
    lastErr,             \* the current error
    backoff,             \* the duration of the timer of waitWithBackoff
    woken,               \* which cases of waitWithBackoff's select are ready
    body,                \* the bytes applyResponseMiddleware buffered
    respLog,             \* response-middleware steps invoked and what each saw
    result,              \* what Do decoded into its result argument
    ret,                 \* what Do / DoWithResponse returned to the caller
    bo,                  \* inputs and output of a calculateBackoff call
    call                 \* inputs and output of a call of another function

vars == <<retryConfig, middleware, responseMiddleware, api, hasResult, bErr,
          cancelled, pc, header, mwIdx, reqLog, attempt, sendLog, resp,
          lastErr, backoff, woken, body, respLog, result, ret, bo, call>>

\* the variables of a request execution, all but bo and call
execution == <<retryConfig, middleware, responseMiddleware, api, hasResult, bErr,
               cancelled, pc, header, mwIdx, reqLog, attempt, sendLog, resp,
               lastErr, backoff, woken, body, respLog, result, ret>>

\* the largest MaxAttempts given to WithRetry
MaxAttemptsCfg == 2

\* the largest number of request-middleware steps registered
MaxReqMw == 2

\* the largest number of response-middleware steps registered
MaxRespMw == 2

\* the largest attempt index given to calculateBackoff
MaxAttemptIdx == 64

(***************************************************************************)
(* Errors.  fmt.Errorf("...: %w", err) is Wrap: the message and the cause. *)
(***************************************************************************)
NilErr == [kind |-> "nil"]

MarshalErr == [kind |-> "failed to marshal JSON"]

TransportErr(n) == [kind |-> "transport", send |-> n]

CtxErr == [kind |-> "context"]

ReadErr(why) == [kind |-> "read", why |-> why]

StepErr(id) == [kind |-> "step", step |-> id]

SyntaxErr == [kind |-> "json"]

Wrap(msg, e) == [kind |-> msg, cause |-> e]

\* a wrap that reports the index of the last attempt, not the count
ExhaustedErrIndex(n, e) ==
    [kind |-> "request failed after attempts", attempts |-> n - 1, cause |-> e]

ExhaustedErr(n, e) == [kind |-> "request failed after attempts", attempts |-> n, cause |-> e]

APIError(status, msg, raw) ==
    [kind |-> "APIError", StatusCode |-> status, Message |-> msg, Body |-> raw]

(***************************************************************************)
(* Body streams (io.ReadCloser).  kind "net" is a net/http body: a Read   *)
(* after Close fails; "nop" is a body whose Close does not affect reads    *)
(* (http.NoBody, io.NopCloser); "broken" is a body whose reads fail.       *)
(* id is the number of the transport call that opened it, 0 for a view.    *)
(***************************************************************************)
\* the bodies the transport hands back: empty, {"message":"m"}, plain text
Bodies == {<<>>, <<"{", "m", "}">>, <<"x">>}

BodyKinds == {"net", "nop", "broken"}

Statuses == {200, 404, 503}

NoBody == [id |-> 0, data |-> <<>>, pos |-> 0, closed |-> FALSE, kind |-> "none"]

NilResp == [StatusCode |-> 0, Body |-> NoBody]

\* io.NopCloser(bytes.NewReader(b))
NopReader(b) == [id |-> 0, data |-> b, pos |-> 0, closed |-> FALSE, kind |-> "nop"]

Readable(s) == s.kind = "nop" \/ (s.kind = "net" /\ ~s.closed)

Rest(s) == SubSeq(s.data, s.pos + 1, Len(s.data))

\* io.ReadAll(s): the bytes and the error; the stream is left at its end
ReadAll(s) ==
    IF Readable(s)
    THEN [bytes |-> Rest(s), err |-> NilErr, stream |-> [s EXCEPT !.pos = Len(s.data)]]
    ELSE [bytes |-> <<>>, err |-> ReadErr(IF s.closed THEN "closed" ELSE "broken"),
          stream |-> s]

Close(s) == [s EXCEPT !.closed = TRUE]

(***************************************************************************)
(* JSON codec on token strings: an object is "{", field tokens, "}"; the  *)
(* token "m" is the member "message":"m", "d" is "detail":"d", "e" is      *)
(* "error":"e".                                                            *)
(***************************************************************************)
FieldTokens == {"m", "d", "e"}

JSONObject(b) ==
    /\ Len(b) >= 2
    /\ b[1] = "{"
    /\ b[Len(b)] = "}"
    /\ \A i \in 2..(Len(b) - 1) : b[i] \in FieldTokens

\* the value of member f of a parsed object, "" when absent
Member(b, f) == IF \E i \in 2..(Len(b) - 1) : b[i] = f THEN f ELSE ""

\* a decoder that checks the syntax and stores nothing
DecodeDiscarding(s) ==
    LET r == ReadAll(s)
    IN  IF r.err # NilErr THEN [err |-> r.err, value |-> <<>>]
        ELSE IF JSONObject(r.bytes) THEN [err |-> NilErr, value |-> <<>>]
        ELSE [err |-> SyntaxErr, value |-> <<>>]

\* json.NewDecoder(s).Decode(result)
Decode(s) ==
    LET r == ReadAll(s)
    IN  IF r.err # NilErr THEN [err |-> r.err, value |-> <<>>]
        ELSE IF JSONObject(r.bytes)
        THEN [err |-> NilErr, value |-> SubSeq(r.bytes, 2, Len(r.bytes) - 1)]
        ELSE [err |-> SyntaxErr, value |-> <<>>]

\* a choice that takes the first string, empty or not
firstGiven(strs) == IF strs = <<>> THEN "" ELSE Head(strs)

RECURSIVE firstNonEmpty(_)
firstNonEmpty(strs) ==
    IF strs = <<>> THEN ""
    ELSE IF Head(strs) # "" THEN Head(strs)
    ELSE firstNonEmpty(Tail(strs))

\* a classifier that hands the read error itself to the caller
ReadFailureEscalated(status, err) == err

\* handleErrorResponse, lines 59-62: "failed to read error response: %v"
ReadFailure(status, err) ==
    APIError(status, <<"failed to read error response", err.why>>, <<>>)

\* handleErrorResponse(resp): the *APIError it returns
handleErrorResponse(r) ==
    LET rd  == ReadAll(r.Body)
        msg == firstNonEmpty(<<Member(rd.bytes, "m"), Member(rd.bytes, "d"),
                               Member(rd.bytes, "e")>>)
    IN  IF rd.err # NilErr
        THEN ReadFailure(r.StatusCode, rd.err)
        ELSE IF JSONObject(rd.bytes) /\ msg # ""
        THEN APIError(r.StatusCode, <<msg>>, rd.bytes)
        ELSE APIError(r.StatusCode, rd.bytes, rd.bytes)

(***************************************************************************)
(* Retry policy.                                                           *)
(***************************************************************************)
NoRetry ==
    [MaxAttempts |-> 0, WaitTime |-> Zero, MaxWaitTime |-> Zero, set |-> FALSE,
     ShouldRetry |-> "nil"]

\* WithRetry(maxAttempts, waitTime, maxWaitTime)
WithRetry(maxAttempts, waitTime, maxWaitTime) ==
    [MaxAttempts |-> maxAttempts, WaitTime |-> waitTime, MaxWaitTime |-> maxWaitTime,
     set |-> TRUE, ShouldRetry |-> "nil"]

\* defaults that fill in the attempt count only
applyRetryDefaultsAttempts(config) ==
    [config EXCEPT !.MaxAttempts = IF @ = 0 THEN DefaultRetryAttempts ELSE @]

applyRetryDefaults(config) ==
    [config EXCEPT
        !.MaxAttempts = IF @ = 0 THEN DefaultRetryAttempts ELSE @,
        !.WaitTime = IF @ = Zero THEN DefaultRetryWaitTime ELSE @,
        !.MaxWaitTime = IF @ = Zero THEN DefaultRetryMaxWaitTime ELSE @]

StatusTooManyRequests == 429

StatusCreated == 201

\* a predicate that asks for a retry of every outcome
shouldRetryAlways(r, err) == TRUE

\* a predicate without the 429 case
shouldRetryNot429(r, err) ==
    IF err # NilErr THEN TRUE
    ELSE IF r = NilResp THEN TRUE
    ELSE r.StatusCode >= 500

defaultShouldRetry(r, err) ==
    IF err # NilErr THEN TRUE
    ELSE IF r = NilResp THEN TRUE
    ELSE IF r.StatusCode >= 500 THEN TRUE
    ELSE IF r.StatusCode = StatusTooManyRequests THEN TRUE
    ELSE FALSE

\* the functions a RetryConfig may hold in ShouldRetry ("nil" is none): one
\* that never asks for a retry, one that always does, one that asks for a
\* retry of the status 404 only
CustomPredicates == {"never", "always", "on404"}

CustomVerdict(p, r, err) ==
    CASE p = "never" -> FALSE
      [] p = "always" -> TRUE
      [] p = "on404" -> r # NilResp /\ r.StatusCode = 404

\* a loop that asks the default predicate whatever the policy holds
ShouldRetryDefaultOnly(config, r, err) == defaultShouldRetry(r, err)

\* executeWithRetry lines 41-44
ShouldRetry(config, r, err) ==
    IF config.ShouldRetry # "nil" THEN CustomVerdict(config.ShouldRetry, r, err)
    ELSE defaultShouldRetry(r, err)

\* a dispatch that always goes through executeWithRetry
UsesRetryAlways(config) == TRUE

\* execute, line 204: b.client.retryConfig != nil
UsesRetry(config) == config.set

\* a retry that leaves the body of the retried response open
RetryCloseSkipped(r) == r

\* executeWithRetry, lines 50-52: the body of a response that is retried
RetryClose(r) == IF r # NilResp THEN [r EXCEPT !.Body = Close(@)] ELSE r

\* the cases of waitWithBackoff's select that are ready when it is entered: a
\* timer of a duration <= 0 has expired already
SelectReady(d, ctxDone) ==
    IF IsPos(d) THEN (IF ctxDone THEN "ctx" ELSE "none")
    ELSE (IF ctxDone THEN "both" ELSE "timer")

\* the cases select may take: one of those that can proceed
SelectChoices(w) == IF w = "both" THEN {"timer", "ctx"} ELSE {w}

(***************************************************************************)
(* Response-middleware buffering protocol (applyResponseMiddleware).       *)
(***************************************************************************)

\* a protocol that leaves the body as the last reader left it
RestoreBodySkipped(r, b) == r

\* lines 236 and 246: a fresh view over the buffered bytes
RestoreBody(r, b) == [r EXCEPT !.Body = NopReader(b)]

\* a failing path that leaves the body as the faulting step left it
RestoreOnFaultSkipped(r, b) == r

\* line 242: the view installed when a step has faulted
RestoreOnFault(r, b) == [r EXCEPT !.Body = NopReader(b)]

\* what a response-middleware step may do to the response it is given
StepActs == {"none", "drain", "close", "replace"}

StepEffect(r, act) ==
    CASE act = "none" -> r
      [] act = "drain" -> [r EXCEPT !.Body = ReadAll(@).stream]
      [] act = "close" -> [r EXCEPT !.Body = Close(ReadAll(@).stream)]
      [] act = "replace" -> [r EXCEPT !.Body = NopReader(<<"x">>)]

\* a chain that passes over every second step
NextStepSkips(i) == i + 2

\* the index of the step that follows step i of a chain
NextStep(i) == i + 1

\* a transport call in progress, and one that has returned: st is "inflight",
\* "fault", "open" (a response whose body is not closed) or "closed"
Inflight == [st |-> "inflight", status |-> 0]

Returned(o) ==
    IF o.resp = NilResp THEN [st |-> "fault", status |-> 0]
    ELSE [st |-> "open", status |-> o.resp.StatusCode]

\* the transport call that opened stream s is recorded as closed
MarkClosed(log, s) ==
    IF s.id > 0 /\ s.closed THEN [log EXCEPT ![s.id].st = "closed"] ELSE log

\* a chain that ignores the fault of a step and goes on
AbortsNever(fault) == FALSE

\* execute line 197 and applyResponseMiddleware line 240: a step's fault ends
\* the chain
Aborts(fault) == fault

\* a Do that returns without closing the response body
DeferredCloseSkipped(r) == r

\* Do, line 143: the deferred close of the response body
DeferredClose(r) == [r EXCEPT !.Body = Close(@)]

\* execute, line 217: the close after a response-middleware fault
FaultClose(r) == [r EXCEPT !.Body = Close(@)]

\* a success test without the upper end of the range
Is2xxNoUpper(status) == status >= 200

Is2xx(status) == status >= 200 /\ status < 300

NoCall == [attempt |-> 0, waitTime |-> Zero, maxWaitTime |-> Zero, out |-> Zero,
           done |-> FALSE]

\* the (waitTime, maxWaitTime) pairs given to WithRetry
DurationPairs == {<<Zero, Zero>>, <<One, One>>}

Chain(n) == [i \in 1..n |-> i]

Init ==
    /\ retryConfig \in {NoRetry} \cup
           {WithRetry(n, d[1], d[2]) : n \in (-1)..MaxAttemptsCfg, d \in DurationPairs}
    /\ middleware \in {Chain(n) : n \in 0..MaxReqMw}
    /\ responseMiddleware \in {Chain(n) : n \in 0..MaxRespMw}
    /\ api \in {"Do", "DoWithResponse"}
    /\ hasResult \in IF api = "Do" THEN BOOLEAN ELSE {FALSE}
    /\ bErr \in {NilErr, MarshalErr}
    /\ cancelled = FALSE
    /\ pc = "start"
    /\ header = {}
    /\ mwIdx = 0
    /\ reqLog = <<>>
    /\ attempt = 0
    /\ sendLog = <<>>
    /\ resp = NilResp
    /\ lastErr = NilErr
    /\ backoff = Zero
    /\ woken = "none"
    /\ body = <<>>
    /\ respLog = <<>>
    /\ result = <<>>
    /\ ret = [resp |-> NilResp, err |-> NilErr]
    /\ bo = NoCall
    /\ call = NoCall

client == <<middleware, responseMiddleware, api, hasResult, bErr>>

\* Do lines 135-137, DoWithResponse lines 163-165, execute lines 173-193
Begin ==
    /\ pc = "start"
    /\ IF bErr # NilErr
       THEN /\ ret' = [resp |-> NilResp, err |-> bErr]
            /\ pc' = "done"
            /\ mwIdx' = mwIdx
       ELSE /\ pc' = "reqmw"
            /\ mwIdx' = 1
            /\ ret' = ret
    /\ UNCHANGED <<retryConfig, client, cancelled, header, reqLog, attempt, sendLog,
                   resp, lastErr, backoff, woken, body, respLog, result, bo, call>>

\* execute lines 196-200: one request-middleware step; the step sets its own
\* header, and a step that faults may have set it before faulting
RequestMiddleware ==
    /\ pc = "reqmw"
    /\ mwIdx <= Len(middleware)
    /\ \E fault \in BOOLEAN, wrote \in BOOLEAN :
          LET id == middleware[mwIdx]
          IN  /\ ~fault => wrote
              /\ reqLog' = Append(reqLog, [step |-> id, fault |-> fault])
              /\ header' = IF wrote THEN header \cup {id} ELSE header
              /\ IF Aborts(fault)
                 THEN /\ ret' = [resp |-> NilResp,
                                 err |-> Wrap("middleware error", StepErr(id))]
                      /\ pc' = "done"
                      /\ mwIdx' = mwIdx
                 ELSE /\ mwIdx' = NextStep(mwIdx)
                      /\ UNCHANGED <<ret, pc>>
    /\ UNCHANGED <<retryConfig, client, cancelled, attempt, sendLog, resp, lastErr,
                   backoff, woken, body, respLog, result, bo, call>>

\* execute lines 203-208, executeWithRetry lines 33-38
Dispatch ==
    /\ pc = "reqmw"
    /\ mwIdx > Len(middleware)
    /\ IF UsesRetry(retryConfig)
       THEN /\ retryConfig' = applyRetryDefaults(retryConfig)
            /\ pc' = "loop"
       ELSE /\ retryConfig' = retryConfig
            /\ pc' = "call"
    /\ attempt' = 0
    /\ UNCHANGED <<client, cancelled, header, mwIdx, reqLog, sendLog, resp, lastErr,
                   backoff, woken, body, respLog, result, ret, bo, call>>

\* client.Do(req) is called: execute line 207, executeWithRetry lines 38-39
SendStartWith(reads) ==
    /\ \/ pc = "call"
       \/ pc = "loop" /\ attempt < retryConfig.MaxAttempts
    /\ sendLog' = Append(sendLog, Inflight)
    /\ pc' = "sending"
    /\ reads
    /\ UNCHANGED <<retryConfig, client, cancelled, header, mwIdx, reqLog, attempt, resp,
                   lastErr, backoff, woken, body, respLog, result, ret, bo>>

\* the call seen from the execution alone
SendStart == SendStartWith(UNCHANGED call)

\* what client.Do(req) can return for transport call n: a fault and no
\* response, or a response with an unread body and no fault (a 429 reply with
\* an empty body, a 201 reply with a JSON object, the other statuses with each
\* body)
SendOutcomes(n) ==
    {[resp |-> NilResp, err |-> TransportErr(n)]} \cup
    {[resp |-> [StatusCode |-> StatusTooManyRequests,
                Body |-> [id |-> n, data |-> <<>>, pos |-> 0, closed |-> FALSE,
                          kind |-> "net"]],
      err |-> NilErr]} \cup
    {[resp |-> [StatusCode |-> StatusCreated,
                Body |-> [id |-> n, data |-> <<"{", "m", "}">>, pos |-> 0,
                          closed |-> FALSE, kind |-> "net"]],
      err |-> NilErr]} \cup
    {[resp |-> [StatusCode |-> st,
                Body |-> [id |-> n, data |-> d, pos |-> 0, closed |-> FALSE, kind |-> k]],
      err |-> NilErr] : st \in Statuses, d \in Bodies, k \in BodyKinds}

\* a loop that waits after every retried attempt, the last allowed one too
WaitsAfterEvery(attempt_, maxAttempts) == TRUE

\* executeWithRetry line 54: a wait follows the retried attempt
WaitsAfter(attempt_, maxAttempts) == attempt_ < maxAttempts - 1

\* client.Do(req) returns.  Without a retry policy that is execute line 207;
\* with one it is executeWithRetry lines 39-58, up to the select of
\* waitWithBackoff (lines 82-86).  WithRetry leaves config.ShouldRetry nil, so
\* on a client built through the options the predicate of lines 41-44 is
\* defaultShouldRetry.
SendReturnWith(outcomes, logs) ==
    /\ pc = "sending"
    /\ LET n     == Len(sendLog)
           waits == IF UsesRetry(retryConfig) /\ WaitsAfter(attempt, retryConfig.MaxAttempts)
                    THEN calculateBackoff(attempt, retryConfig.WaitTime,
                                          retryConfig.MaxWaitTime)
                    ELSE {}
       IN  \E o \in outcomes :
             LET logged == [sendLog EXCEPT ![n] = Returned(o)]
             IN  IF ~UsesRetry(retryConfig) \/ ~ShouldRetry(retryConfig, o.resp, o.err)
                 THEN /\ resp' = o.resp
                      /\ lastErr' = o.err
                      /\ sendLog' = logged
                      /\ pc' = "dispatched"
                      /\ UNCHANGED <<attempt, backoff, woken>>
                 ELSE /\ resp' = RetryClose(o.resp)
                      /\ lastErr' = o.err
                      /\ sendLog' = MarkClosed(logged, resp'.Body)
                      /\ IF WaitsAfter(attempt, retryConfig.MaxAttempts)
                         THEN /\ backoff' \in waits
                              /\ woken' = SelectReady(backoff', cancelled)
                              /\ pc' = "wait"
                              /\ attempt' = attempt
                         ELSE /\ attempt' = attempt + 1
                              /\ pc' = "loop"
                              /\ UNCHANGED <<backoff, woken>>
    /\ logs
    /\ UNCHANGED <<retryConfig, client, cancelled, header, mwIdx, reqLog, body, respLog,
                   result, ret, bo>>

SendReturnFrom(outcomes) == SendReturnWith(outcomes, UNCHANGED call)

\* the transport answers with any of its outcomes, whatever the context
SendReturn == SendReturnFrom(SendOutcomes(Len(sendLog)))

\* the timer of waitWithBackoff expires while the select is blocked
TimerFire ==
    /\ pc = "wait"
    /\ woken = "none"
    /\ woken' = "timer"
    /\ UNCHANGED <<retryConfig, client, cancelled, pc, header, mwIdx, reqLog, attempt,
                   sendLog, resp, lastErr, backoff, body, respLog, result, ret, bo, call>>

\* the caller's context is cancelled; a blocked select is woken by it.  Once
\* dispatch has ended nothing reads the context any more.
Cancel ==
    /\ ~cancelled
    /\ pc \in {"start", "reqmw", "call", "loop", "sending", "wait"}
    /\ cancelled' = TRUE
    /\ woken' = IF pc = "wait" /\ woken = "none" THEN "ctx" ELSE woken
    /\ UNCHANGED <<retryConfig, client, pc, header, mwIdx, reqLog, attempt, sendLog,
                   resp, lastErr, backoff, body, respLog, result, ret, bo, call>>

\* waitWithBackoff lines 86-91 and executeWithRetry lines 55-58
WaitReturn ==
    /\ pc = "wait"
    /\ woken # "none"
    /\ \E c \in SelectChoices(woken) :
          IF c = "timer"
          THEN /\ attempt' = attempt + 1
               /\ pc' = "loop"
               /\ UNCHANGED <<resp, lastErr>>
          ELSE /\ resp' = NilResp
               /\ lastErr' = CtxErr
               /\ pc' = "dispatched"
               /\ attempt' = attempt
    /\ woken' = "none"
    /\ UNCHANGED <<retryConfig, client, cancelled, header, mwIdx, reqLog, sendLog,
                   backoff, body, respLog, result, ret, bo, call>>

\* executeWithRetry lines 38 and 61-64: the loop ends without a return
LoopExit ==
    /\ pc = "loop"
    /\ ~(attempt < retryConfig.MaxAttempts)
    /\ IF lastErr # NilErr
       THEN /\ resp' = NilResp
            /\ lastErr' = ExhaustedErr(retryConfig.MaxAttempts, lastErr)
       ELSE UNCHANGED <<resp, lastErr>>
    /\ pc' = "dispatched"
    /\ UNCHANGED <<retryConfig, client, cancelled, header, mwIdx, reqLog, attempt,
                   sendLog, backoff, woken, body, respLog, result, ret, bo, call>>

\* execute lines 210-220 and applyResponseMiddleware lines 229-236
AfterDispatch ==
    /\ pc = "dispatched"
    /\ IF lastErr # NilErr \/ Len(responseMiddleware) = 0
       THEN /\ pc' = "returned"
            /\ UNCHANGED <<resp, lastErr, sendLog, body, mwIdx>>
       ELSE IF resp = NilResp
       THEN /\ pc' = "panic"
            /\ UNCHANGED <<resp, lastErr, sendLog, body, mwIdx>>
       ELSE LET rd == ReadAll(resp.Body)
            IN  IF rd.err # NilErr
                THEN /\ lastErr' = Wrap("failed to read response body for middleware",
                                        rd.err)
                     /\ resp' = FaultClose(resp)
                     /\ sendLog' = MarkClosed(sendLog, resp'.Body)
                     /\ pc' = "returned"
                     /\ UNCHANGED <<body, mwIdx>>
                ELSE /\ body' = rd.bytes
                     /\ sendLog' = MarkClosed(sendLog, Close(rd.stream))
                     /\ resp' = RestoreBody([resp EXCEPT !.Body = Close(rd.stream)],
                                            rd.bytes)
                     /\ mwIdx' = 1
                     /\ pc' = "respmw"
                     /\ lastErr' = lastErr
    /\ UNCHANGED <<retryConfig, client, cancelled, header, reqLog, attempt, backoff,
                   woken, respLog, result, ret, bo, call>>

\* applyResponseMiddleware lines 239-249 and execute lines 216-222: one
\* response-middleware step
ResponseMiddleware ==
    /\ pc = "respmw"
    /\ \E act \in StepActs, fault \in BOOLEAN :
          LET id    == responseMiddleware[mwIdx]
              after == StepEffect(resp, act)
          IN  /\ respLog' = Append(respLog, [step |-> id, fault |-> fault,
                                              seen |-> ReadAll(resp.Body)])
              /\ IF Aborts(fault)
                 THEN /\ resp' = FaultClose(RestoreOnFault(after, body))
                      /\ lastErr' = Wrap("response middleware error", StepErr(id))
                      /\ pc' = "returned"
                      /\ mwIdx' = mwIdx
                 ELSE /\ resp' = RestoreBody(after, body)
                      /\ lastErr' = lastErr
                      /\ mwIdx' = NextStep(mwIdx)
                      /\ pc' = IF mwIdx' > Len(responseMiddleware) THEN "returned"
                                ELSE "respmw"
    /\ UNCHANGED <<retryConfig, client, cancelled, header, reqLog, attempt, sendLog,
                   backoff, woken, body, result, ret, bo, call>>

\* execute has returned (nil, err) or (resp, nil): Do lines 139-157,
\* DoWithResponse line 167
Finish ==
    /\ pc = "returned"
    /\ IF lastErr # NilErr
       THEN /\ ret' = [resp |-> NilResp, err |-> lastErr]
            /\ pc' = "done"
            /\ UNCHANGED <<resp, sendLog, result>>
       ELSE IF api = "DoWithResponse"
       THEN /\ ret' = [resp |-> resp, err |-> NilErr]
            /\ pc' = "done"
            /\ UNCHANGED <<resp, sendLog, result>>
       ELSE IF resp = NilResp
       THEN /\ pc' = "panic"
            /\ UNCHANGED <<ret, resp, sendLog, result>>
       ELSE IF ~Is2xx(resp.StatusCode)
       THEN /\ ret' = [resp |-> NilResp, err |-> handleErrorResponse(resp)]
            /\ resp' = DeferredClose([resp EXCEPT !.Body = ReadAll(@).stream])
            /\ sendLog' = MarkClosed(sendLog, resp'.Body)
            /\ pc' = "done"
            /\ result' = result
       ELSE IF hasResult
       THEN LET d == Decode(resp.Body)
            IN  /\ ret' = [resp |-> NilResp,
                           err |-> IF d.err # NilErr
                                   THEN Wrap("failed to decode response", d.err)
                                   ELSE NilErr]
                /\ result' = d.value
                /\ resp' = DeferredClose([resp EXCEPT !.Body = ReadAll(@).stream])
                /\ sendLog' = MarkClosed(sendLog, resp'.Body)
                /\ pc' = "done"
       ELSE /\ ret' = [resp |-> NilResp, err |-> NilErr]
            /\ resp' = DeferredClose(resp)
            /\ sendLog' = MarkClosed(sendLog, resp'.Body)
            /\ pc' = "done"
            /\ result' = result
    /\ UNCHANGED <<retryConfig, client, cancelled, header, mwIdx, reqLog, attempt,
                   lastErr, backoff, woken, body, respLog, bo, call>>

Next ==
    \/ Begin
    \/ RequestMiddleware
    \/ Dispatch
    \/ SendStart
    \/ SendReturn
    \/ TimerFire
    \/ Cancel
    \/ WaitReturn
    \/ LoopExit
    \/ AfterDispatch
    \/ ResponseMiddleware
    \/ Finish

Spec == Init /\ [][Next]_vars

(***************************************************************************)
(* calculateBackoff as a function of its arguments.                        *)
(***************************************************************************)

\* the waitTime and maxWaitTime arguments tried
BackoffBases == {Zero, One, FromNat(2), FromNat(3), DefaultRetryWaitTime}

BackoffCaps == {One, FromNat(5), DefaultRetryMaxWaitTime}

InitBackoff ==
    /\ bo \in [attempt : 0..MaxAttemptIdx, waitTime : BackoffBases,
                maxWaitTime : BackoffCaps, out : {Zero}, done : {FALSE}]
    /\ retryConfig = NoRetry
    /\ middleware = <<>>
    /\ responseMiddleware = <<>>
    /\ api = "Do"
    /\ hasResult = FALSE
    /\ bErr = NilErr
    /\ cancelled = FALSE
    /\ pc = "calculateBackoff"
    /\ header = {}
    /\ mwIdx = 0
    /\ reqLog = <<>>
    /\ attempt = 0
    /\ sendLog = <<>>
    /\ resp = NilResp
    /\ lastErr = NilErr
    /\ backoff = Zero
    /\ woken = "none"
    /\ body = <<>>
    /\ respLog = <<>>
    /\ result = <<>>
    /\ ret = [resp |-> NilResp, err |-> NilErr]
    /\ call = NoCall

BackoffCall ==
    /\ pc = "calculateBackoff"
    /\ ~bo.done
    /\ \E d \in calculateBackoff(bo.attempt, bo.waitTime, bo.maxWaitTime) :
          bo' = [bo EXCEPT !.out = d, !.done = TRUE]
    /\ UNCHANGED <<retryConfig, client, cancelled, pc, header, mwIdx, reqLog, attempt,
                   sendLog, resp, lastErr, backoff, woken, body, respLog, result, ret,
                   call>>

NextBackoff == BackoffCall

SpecBackoff == InitBackoff /\ [][NextBackoff]_vars

(***************************************************************************)
(* The predicates of *APIError.                                            *)
(***************************************************************************)
StatusNotFound == 404

StatusUnauthorized == 401

StatusForbidden == 403

IsNotFound(e) == e.StatusCode = StatusNotFound

IsUnauthorized(e) == e.StatusCode = StatusUnauthorized

IsForbidden(e) == e.StatusCode = StatusForbidden

\* a range check that takes 500 as a client error too
IsClientErrorInclusive(e) == e.StatusCode >= 400 /\ e.StatusCode <= 500

IsClientError(e) == e.StatusCode >= 400 /\ e.StatusCode < 500

IsServerError(e) == e.StatusCode >= 500 /\ e.StatusCode < 600

(***************************************************************************)
(* defaultShouldRetry, handleErrorResponse and the *APIError predicates as *)
(* functions of their arguments: call holds the arguments, and the result  *)
(* once the call is done.                                                  *)
(***************************************************************************)

\* the largest status code tried
MaxStatus == 600

\* the longest body given to handleErrorResponse, in tokens
MaxBodyLen == 4

\* no request execution is in progress; pc names the function under call
Idle(at) ==
    /\ retryConfig = NoRetry
    /\ middleware = <<>>
    /\ responseMiddleware = <<>>
    /\ api = "Do"
    /\ hasResult = FALSE
    /\ bErr = NilErr
    /\ cancelled = FALSE
    /\ pc = at
    /\ header = {}
    /\ mwIdx = 0
    /\ reqLog = <<>>
    /\ attempt = 0
    /\ sendLog = <<>>
    /\ resp = NilResp
    /\ lastErr = NilErr
    /\ backoff = Zero
    /\ woken = "none"
    /\ body = <<>>
    /\ respLog = <<>>
    /\ result = <<>>
    /\ ret = [resp |-> NilResp, err |-> NilErr]
    /\ bo = NoCall

\* a response with status st and body stream b
Response(st, b) == [StatusCode |-> st, Body |-> b]

\* defaultShouldRetry(resp, err): every status with and without a response
\* and a transport fault
InitShouldRetry ==
    /\ Idle("defaultShouldRetry")
    /\ call \in [resp : {NilResp} \cup {Response(st, NopReader(<<>>)) : st \in 0..MaxStatus},
                  err : {NilErr, TransportErr(1)},
                  out : {FALSE},
                  done : {FALSE}]

ShouldRetryCall ==
    /\ pc = "defaultShouldRetry"
    /\ ~call.done
    /\ call' = [call EXCEPT !.out = defaultShouldRetry(call.resp, call.err),
                            !.done = TRUE]
    /\ UNCHANGED <<execution, bo>>

NextShouldRetry == ShouldRetryCall

SpecShouldRetry == InitShouldRetry /\ [][NextShouldRetry]_vars

\* the tokens of a response body
BodyTokens == {"{", "}", "m", "d", "e", "x"}

\* the bodies of at most n tokens
TokenStrings(n) == UNION {[1..k -> BodyTokens] : k \in 0..n}

\* the body streams handleErrorResponse may be given: unread, of each kind,
\* open or already closed
ErrorBodies ==
    {[id |-> 1, data |-> d, pos |-> 0, closed |-> c, kind |-> k] :
        d \in TokenStrings(MaxBodyLen), c \in BOOLEAN, k \in BodyKinds}

\* handleErrorResponse(resp) on a response with a status outside [200,300)
InitClassify ==
    /\ Idle("handleErrorResponse")
    /\ call \in [resp : {Response(st, b) : st \in {s \in Statuses : ~Is2xx(s)},
                                            b \in ErrorBodies},
                  out : {NilErr},
                  done : {FALSE}]

ClassifyCall ==
    /\ pc = "handleErrorResponse"
    /\ ~call.done
    /\ call' = [call EXCEPT !.out = handleErrorResponse(call.resp), !.done = TRUE]
    /\ UNCHANGED <<execution, bo>>

NextClassify == ClassifyCall

SpecClassify == InitClassify /\ [][NextClassify]_vars

\* the results of the five predicates of an *APIError
Predicates(e) ==
    [IsNotFound |-> IsNotFound(e), IsUnauthorized |-> IsUnauthorized(e),
     IsForbidden |-> IsForbidden(e), IsClientError |-> IsClientError(e),
     IsServerError |-> IsServerError(e)]

\* an *APIError of every status, with and without a message and a body
InitPredicates ==
    /\ Idle("APIError")
    /\ call \in [err : {APIError(st, m, m) : st \in 0..MaxStatus, m \in {<<>>, <<"x">>}},
                  out : {Predicates(APIError(0, <<>>, <<>>))},
                  done : {FALSE}]

PredicatesCall ==
    /\ pc = "APIError"
    /\ ~call.done
    /\ call' = [call EXCEPT !.out = Predicates(call.err), !.done = TRUE]
    /\ UNCHANGED <<execution, bo>>

NextPredicates == PredicatesCall

SpecPredicates == InitPredicates /\ [][NextPredicates]_vars

(***************************************************************************)
(* joinURL as a function of its arguments.  A string is a sequence of      *)
(* characters; "a" stands for any character other than the slash.          *)
(***************************************************************************)

\* the longest base and path tried
MaxURLLen == 3

URLChars == {"/", "a"}

URLStrings == UNION {[1..k -> URLChars] : k \in 0..MaxURLLen}

\* strings.TrimSuffix(s, "/")
TrimSuffix(s) ==
    IF Len(s) > 0 /\ s[Len(s)] = "/" THEN SubSeq(s, 1, Len(s) - 1) ELSE s

\* strings.TrimPrefix(s, "/")
TrimPrefix(s) ==
    IF Len(s) > 0 /\ s[1] = "/" THEN Tail(s) ELSE s

joinURL(base, p) ==
    IF p = <<>> THEN base
    ELSE TrimSuffix(base) \o <<"/">> \o TrimPrefix(p)

InitJoin ==
    /\ Idle("joinURL")
    /\ call \in [base : URLStrings, p : URLStrings, out : {<<>>}, done : {FALSE}]

JoinCall ==
    /\ pc = "joinURL"
    /\ ~call.done
    /\ call' = [call EXCEPT !.out = joinURL(call.base, call.p), !.done = TRUE]
    /\ UNCHANGED <<execution, bo>>

NextJoin == JoinCall

SpecJoin == InitJoin /\ [][NextJoin]_vars

(***************************************************************************)
(* The builder calls made before Do / DoWithResponse.  In this            *)
(* specification call is the builder: b.body, the names in b.headers, and  *)
(* which failing WithJSON calls have been made.                            *)
(***************************************************************************)

\* values json.Marshal encodes and values it rejects
GoodValues == {"v"}

BadValues == {"bad1", "bad2"}

\* fmt.Errorf("failed to marshal JSON: %w", err) for the value v
MarshalErrOf(v) == Wrap("failed to marshal JSON", [kind |-> "unsupported", value |-> v])

\* a WithJSON that marshals also when the builder already holds a fault
WithJSONUnguarded(b, v) ==
    IF v \in BadValues THEN [b EXCEPT !.err = MarshalErrOf(v)]
    ELSE [b EXCEPT !.body = <<"json", v>>,
                   !.headers = @ \cup {"Content-Type"}]

\* b.WithJSON(v) on the builder b = [err, body, headers]
WithJSON(b, v) ==
    IF b.err # NilErr THEN b
    ELSE IF v \in BadValues THEN [b EXCEPT !.err = MarshalErrOf(v)]
    ELSE [b EXCEPT !.body = <<"json", v>>,
                   !.headers = @ \cup {"Content-Type"}]

\* b.WithBody(body)
WithBody(b, data) == [b EXCEPT !.body = data]

\* b.WithHeader(key, value)
WithHeader(b, key) == [b EXCEPT !.headers = @ \cup {key}]

\* the builder of the current state
Builder == [err |-> bErr, body |-> call.body, headers |-> call.headers]

\* NewRequest on a client with one step in each chain, with and without a
\* retry policy
InitBuilder ==
    /\ retryConfig \in {NoRetry, WithRetry(2, Zero, Zero)}
    /\ middleware = Chain(1)
    /\ responseMiddleware = Chain(1)
    /\ api \in {"Do", "DoWithResponse"}
    /\ hasResult = FALSE
    /\ bErr = NilErr
    /\ cancelled = FALSE
    /\ pc = "start"
    /\ header = {}
    /\ mwIdx = 0
    /\ reqLog = <<>>
    /\ attempt = 0
    /\ sendLog = <<>>
    /\ resp = NilResp
    /\ lastErr = NilErr
    /\ backoff = Zero
    /\ woken = "none"
    /\ body = <<>>
    /\ respLog = <<>>
    /\ result = <<>>
    /\ ret = [resp |-> NilResp, err |-> NilErr]
    /\ bo = NoCall
    /\ call = [body |-> <<>>, headers |-> {}, first |-> "none", again |-> FALSE]

\* a WithJSON call; first is the value of the first call that failed to
\* marshal, again tells that a value that does not marshal was given later
BuilderWithJSON ==
    /\ pc = "start"
    /\ \E v \in GoodValues \cup BadValues :
          LET b == WithJSON(Builder, v)
          IN  /\ bErr' = b.err
              /\ call' = [body |-> b.body, headers |-> b.headers,
                          first |-> IF call.first = "none" /\ v \in BadValues
                                    THEN v ELSE call.first,
                          again |-> call.again \/ (call.first # "none" /\ v \in BadValues)]
    /\ UNCHANGED <<retryConfig, middleware, responseMiddleware, api, hasResult,
                   cancelled, pc, header, mwIdx, reqLog, attempt, sendLog, resp,
                   lastErr, backoff, woken, body, respLog, result, ret, bo>>

\* a WithBody or WithHeader call
BuilderOther ==
    /\ pc = "start"
    /\ \E b \in {WithBody(Builder, <<"raw">>), WithHeader(Builder, "X-Custom")} :
          /\ bErr' = b.err
          /\ call' = [call EXCEPT !.body = b.body, !.headers = b.headers]
    /\ UNCHANGED <<retryConfig, middleware, responseMiddleware, api, hasResult,
                   cancelled, pc, header, mwIdx, reqLog, attempt, sendLog, resp,
                   lastErr, backoff, woken, body, respLog, result, ret, bo>>

NextBuilder ==
    \/ BuilderWithJSON
    \/ BuilderOther
    \/ Next

SpecBuilder == InitBuilder /\ [][NextBuilder]_vars

(***************************************************************************)
(* AuthMiddleware as the only request-middleware step of an execution.  In *)
(* this specification call holds the arguments of AuthMiddleware, the      *)
(* request's headers and the error the step returned.  A header value is a *)
(* sequence of strings, their concatenation; <<>> is a header not set.     *)
(***************************************************************************)
AuthTypes == {"Bearer", "APIKey", "Basic", "Digest", "bearer", ""}

AuthValues == {"", "t1", "t2"}

\* the canonical names of the headers AuthMiddleware may set
AuthHeaders == {"Authorization", "X-Api-Key"}

\* fmt.Errorf("unsupported auth type: %s", authType)
UnsupportedAuth(authType) == [kind |-> "unsupported auth type", authType |-> authType]

\* a step that takes every tag it does not know as a Bearer token
AuthMiddlewareLenient(authType, authValue, hdr) ==
    CASE authType = "APIKey" ->
           [hdr |-> [hdr EXCEPT !["X-Api-Key"] = <<authValue>>], err |-> NilErr]
      [] authType = "Basic" ->
           [hdr |-> [hdr EXCEPT !["Authorization"] = <<"Basic ", authValue>>],
            err |-> NilErr]
      [] OTHER ->
           [hdr |-> [hdr EXCEPT !["Authorization"] = <<"Bearer ", authValue>>],
            err |-> NilErr]

\* AuthMiddleware(authType, authValue)(req): the headers after and the error
AuthMiddleware(authType, authValue, hdr) ==
    CASE authType = "Bearer" ->
           [hdr |-> [hdr EXCEPT !["Authorization"] = <<"Bearer ", authValue>>],
            err |-> NilErr]
      [] authType = "APIKey" ->
           [hdr |-> [hdr EXCEPT !["X-Api-Key"] = <<authValue>>], err |-> NilErr]
      [] authType = "Basic" ->
           [hdr |-> [hdr EXCEPT !["Authorization"] = <<"Basic ", authValue>>],
            err |-> NilErr]
      [] OTHER -> [hdr |-> hdr, err |-> UnsupportedAuth(authType)]

\* a client whose middleware chain is AuthMiddleware(authType, authValue),
\* without a retry policy; the builder may have set either header
InitAuth ==
    /\ retryConfig = NoRetry
    /\ middleware = Chain(1)
    /\ responseMiddleware = <<>>
    /\ api = "Do"
    /\ hasResult = FALSE
    /\ bErr = NilErr
    /\ cancelled = FALSE
    /\ pc = "reqmw"
    /\ header = {}
    /\ mwIdx = 1
    /\ reqLog = <<>>
    /\ attempt = 0
    /\ sendLog = <<>>
    /\ resp = NilResp
    /\ lastErr = NilErr
    /\ backoff = Zero
    /\ woken = "none"
    /\ body = <<>>
    /\ respLog = <<>>
    /\ result = <<>>
    /\ ret = [resp |-> NilResp, err |-> NilErr]
    /\ bo = NoCall
    /\ call \in {[authType |-> t, authValue |-> v, before |-> h, hdr |-> h,
                  err |-> NilErr, done |-> FALSE] :
                     t \in AuthTypes, v \in AuthValues,
                     h \in [AuthHeaders -> {<<>>, <<"old">>}]}

\* execute lines 196-208 with the step AuthMiddleware(authType, authValue)
AuthStep ==
    /\ pc = "reqmw"
    /\ mwIdx <= Len(middleware)
    /\ LET r == AuthMiddleware(call.authType, call.authValue, call.before)
       IN  /\ call' = [call EXCEPT !.hdr = r.hdr, !.err = r.err, !.done = TRUE]
           /\ reqLog' = Append(reqLog, [step |-> middleware[mwIdx],
                                        fault |-> r.err # NilErr])
           /\ IF Aborts(r.err # NilErr)
              THEN /\ ret' = [resp |-> NilResp, err |-> Wrap("middleware error", r.err)]
                   /\ pc' = "done"
                   /\ mwIdx' = mwIdx
              ELSE /\ mwIdx' = NextStep(mwIdx)
                   /\ UNCHANGED <<ret, pc>>
    /\ UNCHANGED <<retryConfig, client, cancelled, header, attempt, sendLog, resp,
                   lastErr, backoff, woken, body, respLog, result, bo>>

NextAuth ==
    \/ AuthStep
    \/ Dispatch
    \/ SendStart

SpecAuth == InitAuth /\ [][NextAuth]_vars

(***************************************************************************)
(* DebugMiddleware and DebugResponseMiddleware.  In this specification     *)
(* call holds two executions of one client that differ in the bytes of the *)
(* body only: side tells which of the two steps the client has, opts is    *)
(* the *DebugOptions given to it (the Writer apart), keys the names of the *)
(* headers of the request or response.  For each execution, data is the    *)
(* body's bytes, given the body handed to the step, left the body as the   *)
(* step left it, body the body the next reader finds, order the order in   *)
(* which the header map was iterated, out the lines written to the sink    *)
(* and seen the bytes the next reader reads.  A line is a sequence of      *)
(* strings.                                                                *)
(***************************************************************************)
DebugKeys == {"A", "B"}

DebugOpts ==
    {[nil |-> TRUE, Color |-> FALSE, ShowBody |-> FALSE]} \cup
    [nil : {FALSE}, Color : BOOLEAN, ShowBody : BOOLEAN]

\* (*DebugOptions).applyDefaults
applyDefaults(o) ==
    IF o.nil THEN [nil |-> FALSE, Color |-> TRUE, ShowBody |-> TRUE] ELSE o

\* the orders in which a range over a map with the keys S may yield them
RangeOrders(S) ==
    {o \in [1..Cardinality(S) -> S] : \A i, j \in 1..Cardinality(S) : o[i] = o[j] => i = j}

\* printRequestLine, and line 94 of DebugResponseMiddleware
printFirstLine(prefix) == <<<<prefix, "line">>>>

\* printHeaders(w, useColor, prefix, headers), the map iterated in order o
printHeaders(useColor, prefix, o) ==
    [i \in 1..Len(o) |-> <<prefix, o[i], IF useColor THEN "color" ELSE "plain">>]
        \o <<<<prefix>>>>

\* a printBody that leaves the body as its read left it
printBodyConsuming(s) ==
    LET rd == ReadAll(s)
    IN  IF rd.err # NilErr
        THEN [out |-> <<>>, body |-> rd.stream,
              err |-> Wrap("failed to read body for debug", rd.err)]
        ELSE [out |-> IF Len(rd.bytes) > 0 THEN <<rd.bytes, <<>>>> ELSE <<>>,
              body |-> Close(rd.stream), err |-> NilErr]

\* printBody(w, _, body, bodyPtr): the lines written, *bodyPtr and the error
printBody(s) ==
    LET rd == ReadAll(s)
    IN  IF rd.err # NilErr
        THEN [out |-> <<>>, body |-> rd.stream,
              err |-> Wrap("failed to read body for debug", rd.err)]
        ELSE [out |-> IF Len(rd.bytes) > 0 THEN <<rd.bytes, <<>>>> ELSE <<>>,
              body |-> NopReader(rd.bytes), err |-> NilErr]

\* a step that prints every body there is
ShowsBodyAlways(opts, s) == s.kind # "none"

\* debug.go lines 57 and 97: opts.ShowBody && Body != nil
ShowsBody(opts, s) == opts.ShowBody /\ s.kind # "none"

\* the step DebugMiddleware(opts) or DebugResponseMiddleware(opts) on a
\* message with the body s whose header map is iterated in order o
DebugPrint(opts, prefix, o, s) ==
    LET p    == applyDefaults(opts)
        head == printFirstLine(prefix) \o printHeaders(p.Color, prefix, o)
        pb   == printBody(s)
    IN  IF ShowsBody(p, s)
        THEN [out |-> head \o pb.out, body |-> pb.body, err |-> pb.err]
        ELSE [out |-> head, body |-> s, err |-> NilErr]

DebugMiddleware(opts, o, s) == DebugPrint(opts, ">", o, s)

DebugResponseMiddleware(opts, o, s) == DebugPrint(opts, "<", o, s)

\* the request body http.NewRequestWithContext makes of the builder's body:
\* none without one, else a reader over the bytes, or the caller's own reader
\* whose reads fail
RequestBodies(d) ==
    {NopReader(d), [NopReader(d) EXCEPT !.kind = "broken"]} \cup
    (IF d = <<>> THEN {NoBody} ELSE {})

DebugRun(d, s) ==
    [data |-> d, given |-> s, left |-> s, body |-> s, order |-> <<>>, out |-> <<>>,
     err |-> NilErr, seen |-> <<>>, stage |-> "new"]

\* two executions with the same headers and options; the bodies of a
\* response are the views applyResponseMiddleware installs (line 236)
InitDebug ==
    /\ Idle("debug")
    /\ \E side \in {"request", "response"}, opts \in DebugOpts,
          keys \in SUBSET DebugKeys, d1 \in Bodies, d2 \in Bodies :
          \E s1 \in IF side = "request" THEN RequestBodies(d1) ELSE {NopReader(d1)},
             s2 \in IF side = "request" THEN RequestBodies(d2) ELSE {NopReader(d2)} :
             /\ s1.kind = s2.kind
             /\ call = [side |-> side, opts |-> opts, keys |-> keys,
                        run |-> <<DebugRun(d1, s1), DebugRun(d2, s2)>>]

\* execute lines 196-200 with the step DebugMiddleware(opts)
DebugRequestStep ==
    /\ pc = "debug"
    /\ call.side = "request"
    /\ \E i \in 1..2, o \in RangeOrders(call.keys) :
          LET r == call.run[i]
              p == DebugMiddleware(call.opts, o, r.given)
          IN  /\ r.stage = "new"
              /\ call' = [call EXCEPT !.run[i] =
                            [r EXCEPT !.order = o, !.out = p.out, !.err = p.err,
                                      !.left = p.body, !.body = p.body,
                                      !.stage = IF Aborts(p.err # NilErr)
                                                THEN "aborted" ELSE "printed"]]
    /\ UNCHANGED execution
    /\ bo' = bo

\* execute line 207: the transport reads the request body to send it
TransportRead ==
    /\ pc = "debug"
    /\ call.side = "request"
    /\ \E i \in 1..2 :
          LET r == call.run[i]
          IN  /\ r.stage = "printed"
              /\ call' = [call EXCEPT !.run[i] =
                            [r EXCEPT !.seen = IF r.body.kind = "none" THEN <<>>
                                               ELSE ReadAll(r.body).bytes,
                                      !.stage = "read"]]
    /\ UNCHANGED execution
    /\ bo' = bo

\* applyResponseMiddleware lines 239-247 with the step
\* DebugResponseMiddleware(opts)
DebugResponseStep ==
    /\ pc = "debug"
    /\ call.side = "response"
    /\ \E i \in 1..2, o \in RangeOrders(call.keys) :
          LET r == call.run[i]
              p == DebugResponseMiddleware(call.opts, o, r.given)
              after == Response(200, p.body)
          IN  /\ r.stage = "new"
              /\ call' = [call EXCEPT !.run[i] =
                            [r EXCEPT !.order = o, !.out = p.out, !.err = p.err,
                                      !.left = p.body,
                                      !.body = IF Aborts(p.err # NilErr)
                                               THEN RestoreOnFault(after, r.data).Body
                                               ELSE RestoreBody(after, r.data).Body,
                                      !.stage = IF Aborts(p.err # NilErr)
                                                THEN "aborted" ELSE "printed"]]
    /\ UNCHANGED execution
    /\ bo' = bo

\* Do lines 146 and 151: handleErrorResponse or the JSON decoder reads the
\* response body
ResponseRead ==
    /\ pc = "debug"
    /\ call.side = "response"
    /\ \E i \in 1..2 :
          LET r == call.run[i]
          IN  /\ r.stage = "printed"
              /\ call' = [call EXCEPT !.run[i] =
                            [r EXCEPT !.seen = ReadAll(r.body).bytes, !.stage = "read"]]
    /\ UNCHANGED execution
    /\ bo' = bo

NextDebug ==
    \/ DebugRequestStep
    \/ TransportRead
    \/ DebugResponseStep
    \/ ResponseRead

SpecDebug == InitDebug /\ [][NextDebug]_vars

(***************************************************************************)
(* NewClient: the connection pool of the transport.  In this specification *)
(* call holds the *Config given to NewClient and the http.Transport it     *)
(* builds; the counts are Go ints, IdleConnTimeout a time.Duration in      *)
(* nanoseconds.                                                            *)
(***************************************************************************)
\* line 83
DefaultMaxIdleConnsPerHost == 100

\* line 86: 90 * time.Second = 87890625 * 2^10 ns
DefaultIdleConnTimeout == Shl(FromNat(87890625), 10)

ConnCounts == {-1, 0, 1, 50, 100, 200}

IdleTimeouts == {Zero, FromNat(1), FromNat(1000000000), DefaultIdleConnTimeout}

\* a nil *Config, and the configurations with each pool setting
Configs ==
    {[nil |-> TRUE, MaxIdleConns |-> 0, MaxIdleConnsPerHost |-> 0,
      IdleConnTimeout |-> Zero]} \cup
    [nil : {FALSE}, MaxIdleConns : ConnCounts, MaxIdleConnsPerHost : ConnCounts,
     IdleConnTimeout : IdleTimeouts]

NoTransport == [MaxIdleConns |-> 0, MaxIdleConnsPerHost |-> 0, IdleConnTimeout |-> Zero]

\* NewClient lines 68-87: the transport built from config
NewClient(config) ==
    LET c == IF config.nil
             THEN [nil |-> FALSE, MaxIdleConns |-> 0, MaxIdleConnsPerHost |-> 0,
                   IdleConnTimeout |-> Zero]
             ELSE config
    IN  [MaxIdleConns        |-> c.MaxIdleConns,
         MaxIdleConnsPerHost |-> IF c.MaxIdleConnsPerHost = 0
                                 THEN DefaultMaxIdleConnsPerHost
                                 ELSE c.MaxIdleConnsPerHost,
         IdleConnTimeout     |-> IF IsZero(c.IdleConnTimeout)
                                 THEN DefaultIdleConnTimeout
                                 ELSE c.IdleConnTimeout]

InitNewClient ==
    /\ Idle("new")
    /\ call \in [config : Configs, transport : {NoTransport}, done : {FALSE}]

NewClientCall ==
    /\ pc = "new"
    /\ ~call.done
    /\ call' = [call EXCEPT !.transport = NewClient(call.config), !.done = TRUE]
    /\ UNCHANGED execution
    /\ bo' = bo

NextNewClient == NewClientCall

SpecNewClient == InitNewClient /\ [][NextNewClient]_vars

(***************************************************************************)
(* Executions over a transport that honours the request's context: a send  *)
(* whose context is done when the transport would answer fails.  The       *)
(* caller's context may be cancelled as long as no send has returned a     *)
(* response.                                                               *)
(***************************************************************************)
\* execute line 185: the request carries the builder's context, the one
\* WithContext stored (lines 70-73), so it is done when the caller's is
RequestContextDone == cancelled

\* what the transport returns for call n
CtxOutcomes(n) ==
    IF RequestContextDone THEN {o \in SendOutcomes(n) : o.resp = NilResp}
    ELSE SendOutcomes(n)

SendReturnCtx == SendReturnFrom(CtxOutcomes(Len(sendLog)))

\* no send has returned a response so far
NoResponseYet == \A i \in 1..Len(sendLog) : sendLog[i].st \in {"inflight", "fault"}

CancelBeforeResponse ==
    /\ NoResponseYet
    /\ Cancel

NextCtx ==
    \/ Begin
    \/ RequestMiddleware
    \/ Dispatch
    \/ SendStart
    \/ SendReturnCtx
    \/ TimerFire
    \/ CancelBeforeResponse
    \/ WaitReturn
    \/ LoopExit
    \/ AfterDispatch
    \/ ResponseMiddleware
    \/ Finish

SpecCtx == Init /\ [][NextCtx]_vars

(***************************************************************************)
(* The request body over the attempts of one execution.  execute builds    *)
(* one request whose Body is a reader over b.body (lines 179-185) and      *)
(* every client.Do of the execution is given that request.  In this        *)
(* specification call holds the bytes of b.body, the request's Body, and   *)
(* for each transport call the position of Body when the call began and    *)
(* the bytes the transport read from it.                                   *)
(***************************************************************************)
RequestData == {<<"a">>, <<"a", "b">>}

\* the transport reads the request body from where the stream stands: all
\* that is left, or a part of it when the call ends early
TransportReads(s) == 0..Len(Rest(s))

InitRetryBody ==
    /\ retryConfig \in {NoRetry} \cup
           {WithRetry(n, d[1], d[2]) : n \in 1..(MaxAttemptsCfg + 1), d \in DurationPairs}
    /\ middleware = <<>>
    /\ responseMiddleware = <<>>
    /\ api \in {"Do", "DoWithResponse"}
    /\ hasResult = FALSE
    /\ bErr = NilErr
    /\ cancelled = FALSE
    /\ pc = "start"
    /\ header = {}
    /\ mwIdx = 0
    /\ reqLog = <<>>
    /\ attempt = 0
    /\ sendLog = <<>>
    /\ resp = NilResp
    /\ lastErr = NilErr
    /\ backoff = Zero
    /\ woken = "none"
    /\ body = <<>>
    /\ respLog = <<>>
    /\ result = <<>>
    /\ ret = [resp |-> NilResp, err |-> NilErr]
    /\ bo = NoCall
    /\ call \in {[data |-> d, Body |-> NopReader(d), starts |-> <<>>, sent |-> <<>>] :
                    d \in RequestData}

\* client.Do(req) with the one request of the execution: retry.go line 39,
\* execute line 207
SendStartBody ==
    SendStartWith(\E k \in TransportReads(call.Body) :
                     call' = [call EXCEPT
                                !.starts = Append(@, call.Body.pos),
                                !.sent = Append(@, SubSeq(Rest(call.Body), 1, k)),
                                !.Body = [@ EXCEPT !.pos = @ + k]])

NextRetryBody ==
    \/ Begin
    \/ Dispatch
    \/ SendStartBody
    \/ SendReturn
    \/ TimerFire
    \/ WaitReturn
    \/ LoopExit
    \/ AfterDispatch
    \/ Finish

SpecRetryBody == InitRetryBody /\ [][NextRetryBody]_vars

(***************************************************************************)
(* Executions under a retry policy that holds a custom predicate in        *)
(* ShouldRetry (RetryConfig, lines 18-19).                                 *)
(***************************************************************************)
InitCustomRetry ==
    /\ retryConfig \in {[WithRetry(n, d[1], d[2]) EXCEPT !.ShouldRetry = p] :
                           n \in 1..MaxAttemptsCfg, d \in DurationPairs,
                           p \in CustomPredicates}
    /\ middleware = <<>>
    /\ responseMiddleware = <<>>
    /\ api \in {"Do", "DoWithResponse"}
    /\ hasResult \in IF api = "Do" THEN BOOLEAN ELSE {FALSE}
    /\ bErr = NilErr
    /\ cancelled = FALSE
    /\ pc = "start"
    /\ header = {}
    /\ mwIdx = 0
    /\ reqLog = <<>>
    /\ attempt = 0
    /\ sendLog = <<>>
    /\ resp = NilResp
    /\ lastErr = NilErr
    /\ backoff = Zero
    /\ woken = "none"
    /\ body = <<>>
    /\ respLog = <<>>
    /\ result = <<>>
    /\ ret = [resp |-> NilResp, err |-> NilErr]
    /\ bo = NoCall
    /\ call = NoCall

NextCustomRetry ==
    \/ Begin
    \/ Dispatch
    \/ SendStart
    \/ SendReturn
    \/ TimerFire
    \/ Cancel
    \/ WaitReturn
    \/ LoopExit
    \/ AfterDispatch
    \/ Finish

SpecCustomRetry == InitCustomRetry /\ [][NextCustomRetry]_vars

(***************************************************************************)
(* Header assembly.  b.headers is a Go map keyed by the header name as the *)
(* caller spelt it; execute copies it into the request with Header.Set,    *)
(* which canonicalizes the name.  In this specification call holds the     *)
(* builder's map (headers, "-" for a key not present), the calls made on   *)
(* the builder in order (log), the request's headers by canonical name     *)
(* (sent), the header a request-middleware step wrote (mw) and the stage   *)
(* of the execution.                                                       *)
(***************************************************************************)
\* the largest number of calls made on one builder
MaxWrites == 3

HeaderKeys == {"X-A", "x-a", "Content-Type", "content-type"}

HeaderValues == {"v1", "v2"}

\* http.CanonicalHeaderKey
CanonicalHeaderKey(k) == IF k \in {"X-A", "x-a"} THEN "X-A" ELSE "Content-Type"

CanonicalKeys == {CanonicalHeaderKey(k) : k \in HeaderKeys}

NoHeaders == [k \in HeaderKeys |-> "-"]

\* b.headers[key] = value
SetBuilderHeader(h, key, value) == [h EXCEPT ![key] = value]

\* req.Header.Set(key, value)
HeaderSet(h, key, value) == [h EXCEPT ![CanonicalHeaderKey(key)] = value]

\* execute lines 191-193: the range over b.headers in the order o
RECURSIVE SetHeaders(_, _, _)
SetHeaders(h, m, o) ==
    IF o = <<>> THEN h
    ELSE SetHeaders(HeaderSet(h, Head(o), m[Head(o)]), m, Tail(o))

InitHeaders ==
    /\ Idle("build")
    /\ call = [headers |-> NoHeaders, log |-> <<>>,
               sent |-> [c \in CanonicalKeys |-> "-"], mw |-> <<>>]

\* b.WithHeader(key, value), or b.WithHeaders of a map with that one entry
BuilderWithHeader ==
    /\ pc = "build"
    /\ Len(call.log) < MaxWrites
    /\ \E k \in HeaderKeys, v \in HeaderValues :
          call' = [call EXCEPT !.headers = SetBuilderHeader(@, k, v),
                               !.log = Append(@, <<k, v>>)]
    /\ UNCHANGED execution
    /\ bo' = bo

\* b.WithJSON(v) with a value that marshals: line 89
BuilderWithJSONHeader ==
    /\ pc = "build"
    /\ Len(call.log) < MaxWrites
    /\ call' = [call EXCEPT
                  !.headers = SetBuilderHeader(@, "Content-Type", "application/json"),
                  !.log = Append(@, <<"Content-Type", "application/json">>)]
    /\ UNCHANGED execution
    /\ bo' = bo

\* execute lines 185-193: the request is built and the builder's headers
\* are set on it in the order the map yields them
AssembleHeaders ==
    /\ pc = "build"
    /\ \E o \in RangeOrders({k \in HeaderKeys : call.headers[k] # "-"}) :
          call' = [call EXCEPT !.sent = SetHeaders(@, call.headers, o)]
    /\ pc' = "reqmw"
    /\ UNCHANGED <<retryConfig, client, cancelled, header, mwIdx, reqLog, attempt,
                   sendLog, resp, lastErr, backoff, woken, body, respLog, result, ret, bo>>

\* execute lines 196-200 with the step HeaderMiddleware(key, value)
HeaderStep ==
    /\ pc = "reqmw"
    /\ call.mw = <<>>
    /\ \E k \in HeaderKeys, v \in {"mw"} :
          call' = [call EXCEPT !.sent = HeaderSet(@, k, v), !.mw = <<k, v>>]
    /\ UNCHANGED execution
    /\ bo' = bo

\* execute line 207: the request goes to the transport
SendHeaders ==
    /\ pc = "reqmw"
    /\ pc' = "sent"
    /\ UNCHANGED <<retryConfig, client, cancelled, header, mwIdx, reqLog, attempt,
                   sendLog, resp, lastErr, backoff, woken, body, respLog, result, ret, bo,
                   call>>

NextHeaders ==
    \/ BuilderWithHeader
    \/ BuilderWithJSONHeader
    \/ AssembleHeaders
    \/ HeaderStep
    \/ SendHeaders

SpecHeaders == InitHeaders /\ [][NextHeaders]_vars

(***************************************************************************)
(* The waits of executeWithRetry.  In this specification call is the log   *)
(* of the backoff waits entered in the execution: for each, the attempt    *)
(* index given to waitWithBackoff, the number of transport calls made      *)
(* before it and the duration calculateBackoff returned.                   *)
(***************************************************************************)
InitWaits ==
    /\ retryConfig \in {WithRetry(n, d[1], d[2]) :
                           n \in 0..(MaxAttemptsCfg + 1), d \in DurationPairs}
    /\ middleware = <<>>
    /\ responseMiddleware = <<>>
    /\ api = "DoWithResponse"
    /\ hasResult = FALSE
    /\ bErr = NilErr
    /\ cancelled = FALSE
    /\ pc = "start"
    /\ header = {}
    /\ mwIdx = 0
    /\ reqLog = <<>>
    /\ attempt = 0
    /\ sendLog = <<>>
    /\ resp = NilResp
    /\ lastErr = NilErr
    /\ backoff = Zero
    /\ woken = "none"
    /\ body = <<>>
    /\ respLog = <<>>
    /\ result = <<>>
    /\ ret = [resp |-> NilResp, err |-> NilErr]
    /\ bo = NoCall
    /\ call = <<>>

\* executeWithRetry lines 39-58; line 55 enters waitWithBackoff
SendReturnWaits ==
    SendReturnWith(SendOutcomes(Len(sendLog)),
                   call' = IF pc' = "wait"
                           THEN Append(call, [attempt |-> attempt, sends |-> Len(sendLog),
                                              wait |-> backoff'])
                           ELSE call)

NextWaits ==
    \/ Begin
    \/ Dispatch
    \/ SendStart
    \/ SendReturnWaits
    \/ TimerFire
    \/ Cancel
    \/ WaitReturn
    \/ LoopExit
    \/ AfterDispatch
    \/ Finish

SpecWaits == InitWaits /\ [][NextWaits]_vars

(***************************************************************************)
(* Properties.                                                             *)
(***************************************************************************)
Last(q) == q[Len(q)]

\* every transport call so far returned the retryable status 503, no fault
AllSends503 ==
    /\ sendLog # <<>>
    /\ \A i \in 1..Len(sendLog) : sendLog[i].st \in {"open", "closed"} /\ sendLog[i].status = 503

\* no response-middleware step faulted
NoRespStepFault == \A i \in 1..Len(respLog) : ~respLog[i].fault

\* C1: with a retry policy of maxAttempts = N >= 1, no cancellation, a
\* transport that answers every send with 503 and a body whose reads do not
\* fail on their own, and no faulting response-middleware step, the execution
\* ends after exactly N sends with the status 503 as the caller's outcome: the
\* envelope from DoWithResponse, an APIError with status 503 from Do.
C1_ExhaustionSurfacesStatus ==
    (/\ pc = "done"
     /\ retryConfig.set
     /\ retryConfig.MaxAttempts >= 1
     /\ ~cancelled
     /\ AllSends503
     /\ resp.Body.kind # "broken"
     /\ NoRespStepFault)
    => /\ Len(sendLog) = retryConfig.MaxAttempts
       /\ api = "DoWithResponse" => ret.err = NilErr /\ ret.resp.StatusCode = 503
       /\ api = "Do" => ret.err.kind = "APIError" /\ ret.err.StatusCode = 503

\* C2: when executeWithRetry has returned, the transport has been called at
\* least once and at most MaxAttempts (after defaults) times.
C2_OneToMaxAttemptsSends ==
    (retryConfig.set /\ pc = "dispatched")
    => Len(sendLog) >= 1 /\ Len(sendLog) <= retryConfig.MaxAttempts

\* C3: when Do has returned, every response body the transport handed back
\* during the call has been closed.
C3_DoClosesEveryBody ==
    (api = "Do" /\ pc = "done")
    => \A i \in 1..Len(sendLog) : sendLog[i].st \in {"fault", "closed"}

\* Do returned without failure after a retried attempt, both bodies closed
C3_Witness ==
    /\ api = "Do"
    /\ pc = "done"
    /\ ret.err = NilErr
    /\ Len(sendLog) = 2
    /\ sendLog[1].st = "closed"
    /\ sendLog[2].st = "closed"

\* C4: transport calls of one execution never overlap, and when a call is in
\* progress every earlier call has returned and the body of every earlier
\* response has been closed.
C4_AttemptsSequential ==
    \A i \in 1..Len(sendLog) :
        sendLog[i].st = "inflight"
        => /\ i = Len(sendLog)
           /\ \A j \in 1..(i - 1) : sendLog[j].st \in {"fault", "closed"}

\* the second attempt is in progress after a first response was retried
C4_Witness ==
    /\ pc = "sending"
    /\ Len(sendLog) = 2
    /\ sendLog[1].st = "closed"
    /\ sendLog[1].status = 503
    /\ sendLog[2].st = "inflight"

\* C5: when the context is done at the time the backoff wait begins, or
\* becomes done while the wait is blocked, the wait ends with executeWithRetry
\* returning no response and the context's error, and no further send.
C5_CancelledWaitAborts ==
    [][(pc = "wait" /\ woken \in {"ctx", "both"} /\ pc' # "wait")
       => /\ pc' = "dispatched"
          /\ resp' = NilResp
          /\ lastErr' = CtxErr
          /\ sendLog' = sendLog]_vars

\* C6: the buffered bytes are the complete body the transport handed back;
\* every response-middleware step is given a body that reads, from the start
\* and without error, as exactly those bytes, whatever the steps before it
\* did; and the body left after a step that did not fault reads as those bytes
\* again.
C6_FreshBodyPerStep ==
    [][/\ (pc = "dispatched" /\ pc' = "respmw")
          => /\ body' = resp.Body.data
             /\ ReadAll(resp'.Body).err = NilErr
             /\ ReadAll(resp'.Body).bytes = body'
       /\ (pc = "respmw" /\ respLog' # respLog)
          => /\ body' = body
             /\ Last(respLog').seen.err = NilErr
             /\ Last(respLog').seen.bytes = body
             /\ ~Last(respLog').fault
                => /\ ReadAll(resp'.Body).err = NilErr
                   /\ ReadAll(resp'.Body).bytes = body]_vars

\* two steps ran on a non-empty body and the response went on to the caller
C6_Witness ==
    /\ pc = "returned"
    /\ lastErr = NilErr
    /\ Len(respLog) = 2
    /\ body = <<"{", "m", "}">>

\* C7: when response-middleware step k faults, the steps invoked are exactly
\* steps 1..k, the envelope's body is a fresh view over the buffered bytes
\* that has then been closed, every body of the transport is closed, and the
\* caller gets that fault wrapped as a response middleware error, with no
\* envelope and nothing decoded.
C7_RespStepFaultAborts ==
    \A k \in 1..Len(respLog) :
        respLog[k].fault
        => /\ k = Len(respLog)
           /\ \A i \in 1..k : respLog[i].step = responseMiddleware[i]
           /\ pc \in {"returned", "done"}
           /\ lastErr = Wrap("response middleware error", StepErr(responseMiddleware[k]))
           /\ resp.Body = Close(NopReader(body))
           /\ \A i \in 1..Len(sendLog) : sendLog[i].st \in {"fault", "closed"}
           /\ pc = "done" => /\ ret = [resp |-> NilResp, err |-> lastErr]
                             /\ result = <<>>

\* the first of two steps faulted on a non-empty body
C7_Witness ==
    /\ pc = "done"
    /\ Len(responseMiddleware) = 2
    /\ Len(respLog) = 1
    /\ respLog[1].fault
    /\ body # <<>>
    /\ ret.err.kind = "response middleware error"

\* C8: request-middleware steps are invoked in registration order and all
\* before the first send; when step k faults no later step is invoked, the
\* transport is never called, the headers set by steps 1..k-1 stay set, and
\* the caller gets the fault (wrapped as a middleware error).
C8_ReqStepsOrderedFaultAborts ==
    /\ Len(reqLog) <= Len(middleware)
    /\ \A i \in 1..Len(reqLog) : reqLog[i].step = middleware[i]
    /\ sendLog # <<>> => Len(reqLog) = Len(middleware)
    /\ \A k \in 1..Len(reqLog) :
          reqLog[k].fault
          => /\ k = Len(reqLog)
             /\ sendLog = <<>>
             /\ \A j \in 1..(k - 1) : middleware[j] \in header
             /\ pc = "done"
             /\ ret = [resp |-> NilResp,
                       err |-> Wrap("middleware error", StepErr(middleware[k]))]

\* the second of two registered steps faulted
C8_Witness ==
    /\ pc = "done"
    /\ Len(middleware) = 2
    /\ Len(reqLog) = 2
    /\ reqLog[2].fault
    /\ 1 \in header

\* min(cap, base * 2^attempt) over the integers, for base >= 0 and cap > 0:
\* the product reaches 2^63, and so exceeds cap, when a one bit of base is
\* moved to position 63 or beyond
IdealBackoff(a, base, cap) ==
    IF \E i \in base : i + a >= Width - 1 THEN cap
    ELSE IF SLt(cap, Shl(base, a)) THEN cap ELSE Shl(base, a)

\* C9: for positive base and cap, the wait calculateBackoff returns is >= 0
\* and <= cap.
C9_BackoffWithinCap ==
    (bo.done /\ IsPos(bo.waitTime) /\ IsPos(bo.maxWaitTime))
    => ~IsNeg(bo.out) /\ SLe(bo.out, bo.maxWaitTime)

\* C10: with b = min(cap, base * 2^attempt), the wait returned lies in
\* [b/2, b) when b > 0, and is 0 when b is 0 or the jitter range b/2 is empty.
C10_BackoffInUpperHalf ==
    bo.done
    => LET b == IdealBackoff(bo.attempt, bo.waitTime, bo.maxWaitTime)
       IN  /\ IsPos(b) => SLe(Half(b), bo.out) /\ SLt(bo.out, b)
           /\ IsZero(Half(b)) => bo.out = Zero

\* dispatch has ended: no send and no wait of this execution is to come
AfterLoop == pc \in {"dispatched", "respmw", "returned", "done", "panic"}

\* C11: in executeWithRetry, when a send returns an outcome the retry
\* predicate does not ask to retry (no fault, a response with a status below
\* 500 other than 429), the loop ends there: that response is returned with
\* its body unread and open and with a nil error, no wait is started, and no
\* send follows.
C11_NonRetryableEndsLoop ==
    [][/\ (/\ pc = "sending"
           /\ pc' # "sending"
           /\ retryConfig.set
           /\ lastErr' = NilErr
           /\ resp' # NilResp
           /\ resp'.StatusCode < 500
           /\ resp'.StatusCode # 429)
          => /\ pc' = "dispatched"
             /\ resp'.Body.id = Len(sendLog)
             /\ ~resp'.Body.closed
             /\ resp'.Body.pos = 0
             /\ Len(sendLog') = Len(sendLog)
             /\ Last(sendLog') = [st |-> "open", status |-> resp'.StatusCode]
             /\ attempt' = attempt
             /\ backoff' = backoff
       /\ AfterLoop
          => /\ Len(sendLog') = Len(sendLog)
             /\ backoff' = backoff
             /\ pc' \notin {"call", "loop", "sending", "wait"}]_vars

\* the second attempt returned 404 after a retried first one
C11_Witness ==
    /\ retryConfig.set
    /\ pc = "dispatched"
    /\ lastErr = NilErr
    /\ Len(sendLog) = 2
    /\ sendLog[1].st = "closed"
    /\ sendLog[2] = [st |-> "open", status |-> 404]
    /\ ~resp.Body.closed

\* C12: defaultShouldRetry returns true exactly when the send returned a
\* fault, or no response, or a status >= 500, or the status 429.
C12_DefaultPredicate ==
    call.done
    => (call.out <=> \/ call.err # NilErr
                     \/ call.resp = NilResp
                     \/ call.resp.StatusCode >= 500
                     \/ call.resp.StatusCode = 429)

\* the predicate asked for a retry of a 429 response
C12_Witness ==
    /\ pc = "defaultShouldRetry"
    /\ call.done
    /\ call.err = NilErr
    /\ call.resp # NilResp
    /\ call.resp.StatusCode = 429
    /\ call.out

\* C13: when the loop of executeWithRetry ends after MaxAttempts >= 1
\* retried attempts: if the last attempt returned a fault, the result is no
\* response and an error that wraps that fault and carries the count
\* MaxAttempts; if it returned a response, the result is that response and a
\* nil error, whatever the earlier attempts returned.
C13_ExhaustionWrapsLastFault ==
    [][(pc = "loop" /\ pc' = "dispatched" /\ retryConfig.MaxAttempts >= 1)
       => /\ Len(sendLog) = retryConfig.MaxAttempts
          /\ IF Last(sendLog).st = "fault"
             THEN /\ resp' = NilResp
                  /\ lastErr'.kind = "request failed after attempts"
                  /\ lastErr'.attempts = retryConfig.MaxAttempts
                  /\ lastErr'.cause = TransportErr(Len(sendLog))
             ELSE /\ lastErr' = NilErr
                  /\ resp' = resp
                  /\ resp'.Body.id = Len(sendLog)
                  /\ resp'.StatusCode = Last(sendLog).status]_vars

\* two attempts, a retried response and then a fault, ended the loop
C13_Witness ==
    /\ pc = "dispatched"
    /\ retryConfig.MaxAttempts = 2
    /\ Len(sendLog) = 2
    /\ sendLog[1].st = "closed"
    /\ sendLog[2].st = "fault"
    /\ lastErr.kind = "request failed after attempts"
    /\ lastErr.cause = TransportErr(2)

\* C14 as stated: whichever entry point was called, when execute returned a
\* response with a status outside [200,300) the caller gets the classifier's
\* *APIError as the failure.
C14_EveryEntryPointClassifies ==
    (/\ pc = "done"
     /\ lastErr = NilErr
     /\ resp # NilResp
     /\ (resp.StatusCode < 200 \/ resp.StatusCode >= 300))
    => ret.err.kind = "APIError" /\ ret.err.StatusCode = resp.StatusCode

\* C14, amended: when execute returned a response, Do returns the
\* classifier's *APIError for a status outside [200,300), decodes the body
\* into the destination for a status inside when one was given (a body that
\* does not decode gives a decode failure), and returns nil for a status
\* inside with no destination; DoWithResponse returns the response with a
\* nil error whatever the status, and decodes nothing.
C14_DoClassifiesDoWithResponseReturns ==
    [][(pc = "returned" /\ pc' # "returned" /\ lastErr = NilErr /\ resp # NilResp)
       => IF api = "DoWithResponse"
          THEN ret' = [resp |-> resp, err |-> NilErr] /\ result' = result
          ELSE IF resp.StatusCode < 200 \/ resp.StatusCode >= 300
          THEN /\ ret'.resp = NilResp
               /\ ret'.err.kind = "APIError"
               /\ ret'.err.StatusCode = resp.StatusCode
               /\ result' = result
          ELSE IF hasResult
          THEN LET rd == ReadAll(resp.Body)
               IN  IF rd.err = NilErr /\ JSONObject(rd.bytes)
                   THEN /\ ret' = [resp |-> NilResp, err |-> NilErr]
                        /\ result' = SubSeq(rd.bytes, 2, Len(rd.bytes) - 1)
                   ELSE /\ ret'.resp = NilResp
                        /\ ret'.err.kind = "failed to decode response"
                        /\ result' = <<>>
          ELSE ret' = [resp |-> NilResp, err |-> NilErr] /\ result' = result]_vars

\* Do classified a 404 whose body went through two response-middleware steps
C14_Witness ==
    /\ api = "Do"
    /\ pc = "done"
    /\ Len(respLog) = 2
    /\ resp.StatusCode = 404
    /\ ret.err.kind = "APIError"
    /\ ret.err.Body = <<"{", "m", "}">>

\* C15: of Do's failures, an *APIError is returned only when execute
\* returned a response with a status outside [200,300), and it carries that
\* status; a decode failure only when execute returned a response with a
\* status inside [200,300); and a fault of execute (transport, retry
\* exhaustion, cancellation, middleware) is returned as it is, never as an
\* *APIError or a decode failure.
C15_FailureKindsDistinct ==
    (api = "Do" /\ pc = "done")
    => /\ ret.err.kind = "APIError"
          => /\ lastErr = NilErr
             /\ resp # NilResp
             /\ (resp.StatusCode < 200 \/ resp.StatusCode >= 300)
             /\ ret.err.StatusCode = resp.StatusCode
             /\ Last(sendLog).st = "closed"
             /\ Last(sendLog).status = resp.StatusCode
       /\ ret.err.kind = "failed to decode response"
          => /\ lastErr = NilErr
             /\ resp # NilResp
             /\ resp.StatusCode >= 200
             /\ resp.StatusCode < 300
             /\ Last(sendLog).status = resp.StatusCode
       /\ lastErr # NilErr
          => /\ ret.err = lastErr
             /\ ret.err.kind \notin {"APIError", "failed to decode response"}

\* Do returned a decode failure for a 200 whose body is not JSON
C15_Witness ==
    /\ api = "Do"
    /\ pc = "done"
    /\ resp.StatusCode = 200
    /\ ret.err.kind = "failed to decode response"
    /\ ret.err.cause = SyntaxErr

\* the body has a member of field f
HasMember(b, f) == \E i \in 2..(Len(b) - 1) : b[i] = f

\* C16: for a response whose body reads without error, handleErrorResponse
\* returns an APIError with the response's status, the bytes read as Body,
\* and as Message the first non-empty of message, detail, error when the
\* body is a JSON object, the body text otherwise.
C16_ClassifierMessage ==
    (call.done /\ Readable(call.resp.Body))
    => LET b == call.resp.Body.data
       IN  /\ call.out.kind = "APIError"
           /\ call.out.StatusCode = call.resp.StatusCode
           /\ call.out.Body = b
           /\ call.out.Message =
                 IF JSONObject(b) /\ HasMember(b, "m") THEN <<"m">>
                 ELSE IF JSONObject(b) /\ HasMember(b, "d") THEN <<"d">>
                 ELSE IF JSONObject(b) /\ HasMember(b, "e") THEN <<"e">>
                 ELSE b

\* the body {"error":"e","detail":"d"} gave the message d
C16_Witness ==
    /\ pc = "handleErrorResponse"
    /\ call.done
    /\ call.resp.Body.data = <<"{", "e", "d", "}">>
    /\ Readable(call.resp.Body)
    /\ call.out.Message = <<"d">>

\* C17: when the read of the body fails in handleErrorResponse, the result
\* is an APIError with the response's status, a message that describes the
\* read failure, and an empty Body.
C17_ReadFailureIsAPIError ==
    (call.done /\ ~Readable(call.resp.Body))
    => /\ call.out.kind = "APIError"
       /\ call.out.StatusCode = call.resp.StatusCode
       /\ call.out.Message = <<"failed to read error response",
                               IF call.resp.Body.closed THEN "closed" ELSE "broken">>
       /\ call.out.Body = <<>>

\* the classifier was given a closed net/http body that held bytes
C17_Witness ==
    /\ pc = "handleErrorResponse"
    /\ call.done
    /\ call.resp.Body.kind = "net"
    /\ call.resp.Body.closed
    /\ call.resp.Body.data # <<>>
    /\ call.out.kind = "APIError"
    /\ call.out.Body = <<>>

\* C18: the predicates are functions of the status alone: IsNotFound iff
\* 404, IsUnauthorized iff 401, IsForbidden iff 403, IsClientError iff
\* 400..499, IsServerError iff 500..599; the last two are never both true.
C18_PredicatesByStatus ==
    call.done
    => LET st == call.err.StatusCode
       IN  /\ call.out.IsNotFound <=> st = 404
           /\ call.out.IsUnauthorized <=> st = 401
           /\ call.out.IsForbidden <=> st = 403
           /\ call.out.IsClientError <=> (400 <= st /\ st <= 499)
           /\ call.out.IsServerError <=> (500 <= st /\ st <= 599)
           /\ ~(call.out.IsClientError /\ call.out.IsServerError)

\* the predicates of a 404 with a message: not-found and client-error
C18_Witness ==
    /\ pc = "APIError"
    /\ call.done
    /\ call.err.StatusCode = 404
    /\ call.err.Message # <<>>
    /\ call.out.IsNotFound
    /\ call.out.IsClientError
    /\ ~call.out.IsServerError

\* C19: no step of a request execution writes a field of the client's
\* RetryConfig.
C19_RetryConfigNeverWritten ==
    [][retryConfig' = retryConfig]_vars

\* the request ran the whole request-middleware chain without a fault
ReqChainPassed ==
    /\ bErr = NilErr
    /\ Len(reqLog) = Len(middleware)
    /\ \A i \in 1..Len(reqLog) : ~reqLog[i].fault

\* C20: on a client without a retry policy the transport is called at most
\* once, and exactly once, with the call returned, by the time dispatch has
\* ended in an execution that passed request middleware.
C20_NoPolicyOneSend ==
    ~retryConfig.set
    => /\ Len(sendLog) <= 1
       /\ (AfterLoop /\ ReqChainPassed)
          => Len(sendLog) = 1 /\ sendLog[1].st # "inflight"

\* without a policy, one send answered 429 and the execution ended
C20_Witness ==
    /\ ~retryConfig.set
    /\ pc = "done"
    /\ Len(sendLog) = 1
    /\ sendLog[1].status = 429

\* C21 as stated: when dispatch has ended, the response-middleware steps
\* are entered if and only if dispatch gave a response and no fault (and a
\* step is registered).
C21_StepsIffResponse ==
    [][(pc = "dispatched" /\ pc' # "dispatched")
       => (pc' = "respmw"
           <=> (lastErr = NilErr /\ resp # NilResp /\ Len(responseMiddleware) > 0))]_vars

\* C21, amended: the steps are entered if and only if dispatch gave a
\* response and no fault and the read of the whole body succeeded, whatever
\* the status; they are invoked one at a time in registration order, every
\* one of them unless a step faults, and nothing is classified, decoded or
\* returned to the caller before they have ended.
C21_StepsIffResponseRead ==
    [][/\ (pc = "dispatched" /\ pc' # "dispatched")
          => (pc' = "respmw"
              <=> (/\ lastErr = NilErr
                   /\ resp # NilResp
                   /\ Len(responseMiddleware) > 0
                   /\ Readable(resp.Body)))
       /\ respLog' # respLog
          => /\ pc = "respmw"
             /\ Len(respLog') = Len(respLog) + 1
             /\ SubSeq(respLog', 1, Len(respLog)) = respLog
             /\ Last(respLog').step = responseMiddleware[Len(respLog')]
             /\ ret = [resp |-> NilResp, err |-> NilErr]
             /\ ret' = ret
             /\ result' = result
       /\ pc = "respmw"
          => /\ respLog' # respLog
             /\ pc' \in {"respmw", "returned"}
             /\ pc' = "returned"
                => Last(respLog').fault \/ Len(respLog') = Len(responseMiddleware)]_vars

\* two steps ran on a 404 response, and execute is about to return it
C21_Witness ==
    /\ pc = "returned"
    /\ lastErr = NilErr
    /\ resp.StatusCode = 404
    /\ Len(respLog) = 2
    /\ respLog[1].step = 1
    /\ respLog[2].step = 2

\* s without the slashes it ends with
RECURSIVE StripTrailing(_)
StripTrailing(s) ==
    IF Len(s) > 0 /\ s[Len(s)] = "/" THEN StripTrailing(SubSeq(s, 1, Len(s) - 1)) ELSE s

\* s without the slashes it starts with
RECURSIVE StripLeading(_)
StripLeading(s) ==
    IF Len(s) > 0 /\ s[1] = "/" THEN StripLeading(Tail(s)) ELSE s

\* C22: joinURL returns the base unchanged for an empty path, and otherwise
\* the base without its trailing slashes, one slash, and the path without
\* its leading slashes.
C22_OneSlashAtJoin ==
    call.done
    => call.out = IF call.p = <<>> THEN call.base
                  ELSE StripTrailing(call.base) \o <<"/">> \o StripLeading(call.p)

\* the policy maxAttempts = 3, base wait 200ms = 2 * 10^8 ns, max wait
\* 10s = 10 * 10^9 ns
ThreeAttempts200ms10s ==
    [MaxAttempts |-> 3, WaitTime |-> FromNat(200000000),
     MaxWaitTime |-> MulW(FromNat(10), FromNat(1000000000)), set |-> TRUE,
     ShouldRetry |-> "nil"]

\* every transport call so far returned a fault
AllSendsFault == \A i \in 1..Len(sendLog) : sendLog[i].st = "fault"

\* C23: executeWithRetry turns the policy of WithRetry(0, 0, 0) into
\* maxAttempts 3, base wait 200ms, max wait 10s, and applying the defaults to
\* that again changes nothing; under it the wait after attempt 0 lies in
\* [100ms, 200ms) and the wait after attempt 1 in [200ms, 400ms), there are
\* never more than 3 sends, and when every send faults the loop ends after
\* exactly 3 sends with the count 3 in the error.
C23_ZeroPolicyIsDefaults ==
    [][/\ (pc = "reqmw" /\ pc' = "loop" /\ retryConfig = WithRetry(0, Zero, Zero))
          => /\ retryConfig' = ThreeAttempts200ms10s
             /\ applyRetryDefaults(retryConfig') = retryConfig'
       /\ (retryConfig = ThreeAttempts200ms10s /\ pc = "sending" /\ pc' = "wait")
          => /\ attempt \in {0, 1}
             /\ attempt = 0 => /\ SLe(FromNat(100000000), backoff')
                               /\ SLt(backoff', FromNat(200000000))
             /\ attempt = 1 => /\ SLe(FromNat(200000000), backoff')
                               /\ SLt(backoff', FromNat(400000000))
       /\ retryConfig = ThreeAttempts200ms10s => Len(sendLog') <= 3
       /\ (/\ retryConfig = ThreeAttempts200ms10s
           /\ pc = "loop"
           /\ pc' = "dispatched"
           /\ AllSendsFault)
          => /\ Len(sendLog) = 3
             /\ resp' = NilResp
             /\ lastErr'.kind = "request failed after attempts"
             /\ lastErr'.attempts = 3]_vars

\* three sends faulted under the defaulted policy and the loop has ended
C23_Witness ==
    /\ retryConfig = ThreeAttempts200ms10s
    /\ pc = "dispatched"
    /\ Len(sendLog) = 3
    /\ AllSendsFault
    /\ lastErr.kind = "request failed after attempts"
    /\ lastErr.attempts = 3
    /\ SLe(FromNat(200000000), backoff)

\* C24: the builder's fault is that of the first WithJSON call that failed
\* to marshal, whatever calls followed; with such a fault no request
\* middleware step runs and the transport is not called, and what Do or
\* DoWithResponse returns is that fault and no response.
C24_FirstBuildFaultKept ==
    /\ bErr = IF call.first = "none" THEN NilErr ELSE MarshalErrOf(call.first)
    /\ bErr # NilErr
       => /\ pc \in {"start", "done"}
          /\ reqLog = <<>>
          /\ sendLog = <<>>
          /\ header = {}
          /\ pc = "done" => ret = [resp |-> NilResp, err |-> bErr]

\* DoWithResponse returned the fault of the first failing WithJSON after a
\* second failing WithJSON and a WithBody
C24_Witness ==
    /\ pc = "done"
    /\ api = "DoWithResponse"
    /\ retryConfig.set
    /\ call.first = "bad1"
    /\ call.again
    /\ call.body = <<"raw">>
    /\ ret.err = MarshalErrOf("bad1")

\* C25 as stated: with each of the tags Bearer, APIKey and Basic the step sets
\* the Authorization header from the tag and the value
C25_AuthorizationForEveryTag ==
    (call.done /\ call.authType \in {"Bearer", "APIKey", "Basic"})
        => /\ call.hdr["Authorization"] # <<>>
           /\ Last(call.hdr["Authorization"]) = call.authValue

\* C25: AuthMiddleware with the tag Bearer or Basic sets Authorization to the
\* tag, a space and the value; with the tag APIKey it sets X-API-Key to the
\* value and leaves Authorization alone; with any other tag it faults, the
\* execution returns that fault wrapped as a middleware error and the
\* transport is never called
C25_AuthHeaderByTag ==
    call.done =>
        CASE call.authType = "Bearer" ->
               /\ call.err = NilErr
               /\ call.hdr = [call.before EXCEPT
                                 !["Authorization"] = <<"Bearer ", call.authValue>>]
          [] call.authType = "Basic" ->
               /\ call.err = NilErr
               /\ call.hdr = [call.before EXCEPT
                                 !["Authorization"] = <<"Basic ", call.authValue>>]
          [] call.authType = "APIKey" ->
               /\ call.err = NilErr
               /\ call.hdr = [call.before EXCEPT !["X-Api-Key"] = <<call.authValue>>]
          [] OTHER ->
               /\ call.err # NilErr
               /\ call.hdr = call.before
               /\ pc = "done"
               /\ ret.resp = NilResp
               /\ ret.err = Wrap("middleware error", call.err)
               /\ sendLog = <<>>

C25_Witness ==
    /\ call.done
    /\ call.authType = "APIKey"
    /\ call.authValue = "t1"
    /\ call.before["Authorization"] = <<>>
    /\ call.hdr["X-Api-Key"] = <<"t1">>
    /\ sendLog # <<>>

\* the effective options of the debug step
DebugShowBody == applyDefaults(call.opts).ShowBody

\* C26: when the debug step of either side, with ShowBody=true, has printed a
\* body and returned without a fault, the next reader (the transport for a
\* request, the JSON decoder or the error classifier for a response) reads the
\* complete original bytes, and a non-empty body is among the lines printed
C26_DebugLeavesBodyIntact ==
    \A i \in 1..2 :
        LET r == call.run[i]
        IN  (DebugShowBody /\ r.given.kind # "none" /\ r.stage = "read")
                => /\ r.seen = r.data
                   /\ r.err = NilErr
                   /\ r.data # <<>> => \E j \in 1..Len(r.out) : r.out[j] = r.data

C26_Witness ==
    /\ call.side = "request"
    /\ DebugShowBody
    /\ call.run[1].stage = "read"
    /\ call.run[1].data = <<"{", "m", "}">>
    /\ call.run[1].seen = <<"{", "m", "}">>
    /\ Len(call.run[1].out) = Cardinality(call.keys) + 4

\* both executions have gone through the debug step
BothPrinted == \A i \in 1..2 : call.run[i].stage \in {"printed", "read"}

\* C27 as stated: with ShowBody=false two executions that differ in the body
\* bytes only write identical output, and the step does not read the body
C27_SameOutputBodyUnread ==
    (~DebugShowBody /\ BothPrinted)
        => /\ call.run[1].out = call.run[2].out
           /\ \A i \in 1..2 : call.run[i].left = call.run[i].given

\* C27: with ShowBody=false the step of either side does not read the body,
\* and two executions that differ in the body bytes only write the same first
\* line, the same set of header lines and the same closing line; the two
\* outputs are identical when the header map was iterated in the same order
C27_OutputFreeOfBody ==
    (~DebugShowBody /\ BothPrinted)
        => LET o1 == call.run[1].out
               o2 == call.run[2].out
           IN  /\ \A i \in 1..2 : call.run[i].left = call.run[i].given
               /\ \A i \in 1..2 : call.run[i].err = NilErr
               /\ Len(o1) = Len(o2)
               /\ Len(o1) = Cardinality(call.keys) + 2
               /\ {o1[j] : j \in 1..Len(o1)} = {o2[j] : j \in 1..Len(o2)}
               /\ o1[1] = o2[1]
               /\ Last(o1) = Last(o2)
               /\ call.run[1].order = call.run[2].order => o1 = o2

C27_Witness ==
    /\ ~DebugShowBody
    /\ BothPrinted
    /\ call.keys = DebugKeys
    /\ call.run[1].data # call.run[2].data
    /\ call.run[1].order # call.run[2].order

\* C28: the transport built from a Config has each pool option equal to the
\* Config field when that is non-zero, and to 100 idle connections in total,
\* 100 per destination and 90 seconds when the field is zero or there is no
\* Config
C28_PoolDefaults ==
    call.done =>
        /\ call.transport.MaxIdleConns =
               IF call.config.MaxIdleConns = 0 THEN 100 ELSE call.config.MaxIdleConns
        /\ call.transport.MaxIdleConnsPerHost =
               IF call.config.MaxIdleConnsPerHost = 0 THEN 100
               ELSE call.config.MaxIdleConnsPerHost
        /\ call.transport.IdleConnTimeout =
               IF IsZero(call.config.IdleConnTimeout) THEN Shl(FromNat(87890625), 10)
               ELSE call.config.IdleConnTimeout

\* the bytes of the response body execute obtained: the ones buffered for
\* response middleware when there is any, else the ones of the stream
ReceivedBody == IF Len(responseMiddleware) = 0 THEN resp.Body.data ELSE body

\* C29: when Do is given a destination, there is no retry policy or one with
\* maxAttempts = 1, request middleware passed, the first send returned a
\* status in [200,300) with a body that reads without fault as a JSON object,
\* and no response-middleware step faulted, then Do returns no failure, the
\* destination holds the decoded members of that body, and the transport was
\* called exactly once
C29_SuccessDecodes ==
    (/\ pc = "done"
     /\ api = "Do"
     /\ hasResult
     /\ ~retryConfig.set \/ retryConfig.MaxAttempts = 1
     /\ ReqChainPassed
     /\ NoRespStepFault
     /\ sendLog # <<>>
     /\ sendLog[1].st \in {"open", "closed"}
     /\ sendLog[1].status >= 200
     /\ sendLog[1].status < 300
     /\ resp.Body.kind # "broken"
     /\ JSONObject(ReceivedBody))
    => /\ ret.err = NilErr
       /\ result = SubSeq(ReceivedBody, 2, Len(ReceivedBody) - 1)
       /\ Len(sendLog) = 1
       /\ sendLog[1].st = "closed"

\* Do decoded the body of a 201 on a client with maxAttempts = 1 and a
\* response-middleware step
C29_Witness ==
    /\ pc = "done"
    /\ api = "Do"
    /\ hasResult
    /\ retryConfig.set
    /\ retryConfig.MaxAttempts = 1
    /\ Len(responseMiddleware) >= 1
    /\ Len(sendLog) = 1
    /\ sendLog[1].status = 201
    /\ ret.err = NilErr
    /\ result = <<"m">>

\* C30: over a transport that fails a send whose context is done, when the
\* caller's context was cancelled before any response was obtained, Do ends
\* by returning a failure, with or without a retry policy
C30_CancelledDoFails ==
    (api = "Do" /\ cancelled /\ pc \in {"done", "panic"})
        => /\ pc = "done"
           /\ ret.err # NilErr

\* C31: the request body stream is at its start when each transport call of
\* an execution begins, so that what a call reads of it are the bytes of the
\* body from the first one on
C31_BodyAtStartEachAttempt ==
    \A i \in 1..Len(call.starts) :
        /\ call.starts[i] = 0
        /\ call.sent[i] = SubSeq(call.data, 1, Len(call.sent[i]))

\* C32: when executeWithRetry has returned a response, the body of that
\* response is not closed and nothing of it has been read, also when the
\* response is the one of the last allowed attempt and has a retryable status
C32_ReturnedBodyOpen ==
    (pc = "dispatched" /\ retryConfig.set /\ resp # NilResp)
        => /\ ~resp.Body.closed
           /\ resp.Body.pos = 0

\* C33: when execute reports no error the response it returns is not nil,
\* and neither Do nor applyResponseMiddleware dereferences a nil response
C33_NeverNilNil ==
    /\ pc # "panic"
    /\ (pc = "returned" /\ lastErr = NilErr) => resp # NilResp

\* C34: in one execution the request-middleware steps run at most once each,
\* in registration order, and all of them have run, without a fault, before
\* the transport is called for the first time, however many calls follow;
\* the response-middleware steps run at most once each, in registration
\* order, only after dispatch has ended with every transport call returned,
\* and on the response of the last call
C34_StepsRunOnce ==
    /\ Len(reqLog) <= Len(middleware)
    /\ \A i \in 1..Len(reqLog) : reqLog[i].step = middleware[i]
    /\ sendLog # <<>>
          => /\ Len(reqLog) = Len(middleware)
             /\ \A i \in 1..Len(reqLog) : ~reqLog[i].fault
    /\ Len(respLog) <= Len(responseMiddleware)
    /\ \A i \in 1..Len(respLog) : respLog[i].step = responseMiddleware[i]
    /\ respLog # <<>>
          => /\ pc \in {"respmw", "returned", "done"}
             /\ sendLog # <<>>
             /\ \A i \in 1..Len(sendLog) : sendLog[i].st # "inflight"
             /\ Last(sendLog).st # "fault"
             /\ resp.StatusCode = Last(sendLog).status
             /\ \A i \in 1..Len(respLog) : respLog[i].seen.bytes = body

\* two request steps and two response steps ran once each in an execution
\* that retried
C34_Witness ==
    /\ pc = "done"
    /\ Len(sendLog) = 2
    /\ Len(middleware) = 2
    /\ Len(reqLog) = 2
    /\ Len(responseMiddleware) = 2
    /\ Len(respLog) = 2

\* the outcome of the transport call that has just returned asks for a
\* retry according to the custom predicate the policy holds
CustomSaysRetry ==
    \/ retryConfig.ShouldRetry = "always"
    \/ retryConfig.ShouldRetry = "on404" /\ Last(sendLog').status = 404

\* C35: under a policy with a custom predicate, when a send returns, the
\* custom verdict alone decides: on "no" the loop ends there and returns the
\* outcome as it is, the body of a response open, whatever the default
\* predicate says of it (fault, 5xx, 429); on "yes" the outcome is not
\* returned, the body of a response is closed and the loop goes on to the wait
\* or the next attempt, also for a 200 or a 404
C35_CustomVerdictDecides ==
    [][(pc = "sending" /\ pc' # "sending" /\ retryConfig.ShouldRetry # "nil")
         => IF CustomSaysRetry
            THEN /\ pc' \in {"wait", "loop"}
                 /\ Last(sendLog').st \in {"fault", "closed"}
                 /\ resp' # NilResp => resp'.Body.closed
            ELSE /\ pc' = "dispatched"
                 /\ Last(sendLog').st \in {"fault", "open"}
                 /\ resp' # NilResp => ~resp'.Body.closed /\ resp'.Body.pos = 0
                 /\ resp' = NilResp <=> lastErr' # NilErr]_vars

\* a 200 was retried on the word of the custom predicate and a second send
\* followed
C35_Witness ==
    /\ retryConfig.ShouldRetry = "always"
    /\ Len(sendLog) = 2
    /\ sendLog[1].status = 200
    /\ sendLog[1].st = "closed"

\* the value given by the last of the calls in log that wrote header c under
\* any spelling, "-" when none did
RECURSIVE LastWrite(_, _)
LastWrite(log, c) ==
    IF log = <<>> THEN "-"
    ELSE IF CanonicalHeaderKey(Last(log)[1]) = c THEN Last(log)[2]
    ELSE LastWrite(SubSeq(log, 1, Len(log) - 1), c)

\* C36: the value sent for a header is the one a request-middleware step set
\* for it, and else the one given by the last builder call that wrote that
\* header, whatever the letter case the calls spelt the name in
C36_LastWriteWins ==
    pc = "sent" =>
        \A c \in CanonicalKeys :
            call.sent[c] = IF call.mw # <<>> /\ CanonicalHeaderKey(call.mw[1]) = c
                           THEN call.mw[2]
                           ELSE LastWrite(call.log, c)

\* the loop of executeWithRetry ended because no attempt was left
Exhausted == AfterLoop /\ attempt >= retryConfig.MaxAttempts /\ sendLog # <<>>

\* the waits logged so far lie between the transport calls
WaitsInPlace ==
    /\ Len(call) <= Len(sendLog)
    /\ Len(call) >= Len(sendLog) - 1
    /\ \A i \in 1..Len(call) :
          /\ call[i].attempt = i - 1
          /\ call[i].sends = i
          /\ i - 1 < retryConfig.MaxAttempts - 1
          /\ \/ sendLog[i].st = "fault"
             \/ /\ sendLog[i].st = "closed"
                /\ sendLog[i].status >= 500 \/ sendLog[i].status = 429
    /\ Exhausted
          => /\ Len(sendLog) = retryConfig.MaxAttempts
             /\ Len(call) = Len(sendLog) - 1

\* C37: the i-th wait of an execution is entered after the i-th transport
\* call and before the next, that call was judged retryable (a fault, a
\* status of 500 or more, or 429) and was not the last allowed one, and the
\* wait's duration is calculateBackoff's for the attempt index i - 1; every
\* call but the latest was followed by a wait, and an execution that ended by
\* exhaustion after n calls made n = maxAttempts calls and n - 1 waits
C37_WaitsBetweenAttempts ==
    [][/\ WaitsInPlace'
       /\ call' # call
             => /\ pc = "sending"
                /\ pc' = "wait"
                /\ call' = Append(call, Last(call'))
                /\ Last(call').wait \in
                       calculateBackoff(Len(call), retryConfig.WaitTime,
                                        retryConfig.MaxWaitTime)
       /\ (pc' = "wait" /\ pc # "wait") => call' # call]_vars

\* an execution ended by exhaustion after three calls and two waits
C37_Witness ==
    /\ Exhausted
    /\ pc = "done"
    /\ Len(sendLog) = 3
    /\ Len(call) = 2

====
